---- MODULE Spec2Model ----
(***************************************************************************)
(* Ingestion-and-retrieval pipeline of the technical assistant:            *)
(*   - InMemoryVectorStore (services/vectorStore.ts)                        *)
(*   - RAGEngine.indexDocument / removeDocument / searchRelevantChunks     *)
(*   - the upload / delete routes of the server and indexDocumentAsync     *)
(*                                                                         *)
(* JavaScript Maps and Sets iterate in insertion order, so both are        *)
(* modelled as sequences without repetition.  Scores are compared as exact *)
(* reals (dot / sqrt(magA * magB)); floating point rounding is not         *)
(* modelled.                                                               *)
(***************************************************************************)
EXTENDS Integers, Sequences, FiniteSets, TLC

VARIABLES
    vectorStore,   \* InMemoryVectorStore: [entries, documentIndex]
    ret,           \* what the last completed operation returned
    calls,         \* one record per indexDocument invocation
    lastPass,      \* history: per document, the pass whose chunks were stored last (0: purged)
    documents,     \* DocumentStorage: per document id its stored record, or NoDocument
    deleted,       \* history: ids whose DELETE request has completed
    found,         \* what the last searchRelevantChunks call returned
    sessions,      \* SessionManager: per session id its stored file, or NoSession
    requests,      \* one record per POST /api/chat request or addMessage call
    fetches,       \* one record per OllamaClient call
    scan           \* the locals of splitIntoChunks while its loop runs

vars == <<vectorStore, ret, calls, lastPass, documents, deleted, found,
          sessions, requests, fetches, scan>>

\* the index, the engine and the document routes; the session store, the provider
\* client and the chunker's loop
coreVars == <<vectorStore, ret, calls, lastPass, documents, deleted, found>>

sideVars == <<sessions, requests, fetches, scan>>

----------------------------------------------------------------------------
(* Bounds of the model *)

NumEntryIds == 2      \* ids a caller of the store may pick are 1..NumEntryIds
MaxBatch == 2         \* longest addMany batch
MaxLimit == 2         \* largest search limit
NumCalls == 2         \* indexDocument invocations
MaxChunks == 2        \* chunks one document yields

EntryIds == 1..NumEntryIds
DocIds == {"A", "B"}
CallIds == 1..NumCalls

\* Embeddings handed to the store directly: one of dimension 2, one of dimension 3
Vectors == {<<1, 0>>, <<1, 0, 0>>}

----------------------------------------------------------------------------
(* Generic helpers *)

Range(s) == {s[i] : i \in 1..Len(s)}

Min(a, b) == IF a <= b THEN a ELSE b

\* Array.prototype.slice(0, limit) for limit >= 0
Slice0(s, limit) == SubSeq(s, 1, Min(limit, Len(s)))

----------------------------------------------------------------------------
(* cosineSimilarity *)

RECURSIVE Dot(_, _, _)
Dot(a, b, i) == IF i > Len(a) THEN 0 ELSE a[i] * b[i] + Dot(a, b, i + 1)

DimensionMismatch(a, b) == Len(a) # Len(b)

\* The score dot/sqrt(magA*magB) kept exactly as [n |-> dot, d |-> magA*magB];
\* an empty or zero-magnitude vector scores 0, kept as [n |-> 0, d |-> 1].
cosineSimilarity(a, b) ==
    LET dotProduct == Dot(a, b, 1)
        magnitude2 == Dot(a, a, 1) * Dot(b, b, 1)
    IN  IF Len(a) = 0 \/ magnitude2 = 0
        THEN [n |-> 0, d |-> 1]
        ELSE [n |-> dotProduct, d |-> magnitude2]

\* s1 >= s2 as reals
ScoreGE(s1, s2) ==
    IF s1.n >= 0 /\ s2.n >= 0 THEN s1.n * s1.n * s2.d >= s2.n * s2.n * s1.d
    ELSE IF s1.n >= 0 THEN TRUE
    ELSE IF s2.n >= 0 THEN FALSE
    ELSE s1.n * s1.n * s2.d <= s2.n * s2.n * s1.d

ScoreGT(s1, s2) == ~ScoreGE(s2, s1)

----------------------------------------------------------------------------
(* InMemoryVectorStore *)

EmptyStore == [entries |-> <<>>, documentIndex |-> <<>>]

\* Map.has / Map.get on the primary map
HasEntry(st, id) == \E i \in 1..Len(st.entries) : st.entries[i].id = id

GetEntry(st, id) == st.entries[CHOOSE i \in 1..Len(st.entries) : st.entries[i].id = id]

\* Map.set: an existing key keeps its place, a new key goes last
MapSet(es, entry) ==
    IF \E i \in 1..Len(es) : es[i].id = entry.id
    THEN [i \in 1..Len(es) |-> IF es[i].id = entry.id THEN entry ELSE es[i]]
    ELSE Append(es, entry)

MapDelete(es, id) == SelectSeq(es, LAMBDA e : e.id # id)

\* Set.add / Set.delete on one document's id set
SetAdd(s, id) == IF id \in Range(s) THEN s ELSE Append(s, id)

SetDelete(s, id) == SelectSeq(s, LAMBDA x : x # id)

\* documentIndex is a sequence of [documentId, ids] pairs in insertion order
HasDocument(st, d) == \E i \in 1..Len(st.documentIndex) : st.documentIndex[i].documentId = d

DocumentSet(st, d) ==
    st.documentIndex[CHOOSE i \in 1..Len(st.documentIndex) :
                        st.documentIndex[i].documentId = d].ids

\* add(entry): no check on entry.id or on the embedding's length
StoreAdd(st, entry) ==
    LET withKey == IF HasDocument(st, entry.documentId)
                   THEN st.documentIndex
                   ELSE Append(st.documentIndex,
                               [documentId |-> entry.documentId, ids |-> <<>>])
    IN  [entries |-> MapSet(st.entries, entry),
         documentIndex |->
            [i \in 1..Len(withKey) |->
                IF withKey[i].documentId = entry.documentId
                THEN [withKey[i] EXCEPT !.ids = SetAdd(@, entry.id)]
                ELSE withKey[i]]]

RECURSIVE StoreAddMany(_, _)
StoreAddMany(st, es) ==
    IF es = <<>> THEN st ELSE StoreAddMany(StoreAdd(st, Head(es)), Tail(es))

\* delete(id): [store, value]
StoreDelete(st, id) ==
    IF ~HasEntry(st, id) THEN [store |-> st, value |-> FALSE]
    ELSE LET entry == GetEntry(st, id)
             pruned == [i \in 1..Len(st.documentIndex) |->
                          IF st.documentIndex[i].documentId = entry.documentId
                          THEN [st.documentIndex[i] EXCEPT !.ids = SetDelete(@, id)]
                          ELSE st.documentIndex[i]]
         IN  [store |-> [entries |-> MapDelete(st.entries, id),
                         documentIndex |->
                            SelectSeq(pruned, LAMBDA p :
                                ~(p.documentId = entry.documentId /\ p.ids = <<>>))],
              value |-> TRUE]

\* deleteByDocumentId(documentId): [store, value]
\* (faulty variants: one purges nothing, one purges every document)
StoreDeleteByDocumentId_KeepEntries(st, d) == [store |-> st, value |-> 0]

StoreDeleteByDocumentId_DropAll(st, d) ==
    [store |-> [entries |-> <<>>, documentIndex |-> <<>>],
     value |-> IF HasDocument(st, d) THEN Len(DocumentSet(st, d)) ELSE 0]

StoreDeleteByDocumentId(st, d) ==
    IF ~HasDocument(st, d) THEN [store |-> st, value |-> 0]
    ELSE LET entryIds == Range(DocumentSet(st, d))
         IN  [store |-> [entries |-> SelectSeq(st.entries, LAMBDA e : e.id \notin entryIds),
                         documentIndex |->
                            SelectSeq(st.documentIndex, LAMBDA p : p.documentId # d)],
              value |-> Cardinality({id \in entryIds : HasEntry(st, id)})]

\* getByDocumentId(documentId): the entries, in the id set's order
StoreGetByDocumentId(st, d) ==
    IF ~HasDocument(st, d) THEN <<>>
    ELSE LET ids == SelectSeq(DocumentSet(st, d), LAMBDA id : HasEntry(st, id))
         IN  [i \in 1..Len(ids) |-> GetEntry(st, ids[i])]

StoreSize(st) == Len(st.entries)

\* Array.prototype.sort with (a, b) => b.score - a.score: stable, descending
RECURSIVE InsertByScore(_, _)
InsertByScore(sorted, r) ==
    IF sorted = <<>> THEN <<r>>
    ELSE IF ScoreGT(r.score, Head(sorted).score) THEN <<r>> \o sorted
    ELSE <<Head(sorted)>> \o InsertByScore(Tail(sorted), r)

RECURSIVE SortByScore(_, _)
SortByScore(sorted, rest) ==
    IF rest = <<>> THEN sorted
    ELSE SortByScore(InsertByScore(sorted, Head(rest)), Tail(rest))

\* search throws when cosineSimilarity throws on some stored entry
SearchThrows(st, queryEmbedding) ==
    \E i \in 1..Len(st.entries) : DimensionMismatch(queryEmbedding, st.entries[i].embedding)

\* (faulty variant: the results are cut without being sorted)
StoreSearch_Unsorted(st, queryEmbedding, limit) ==
    Slice0([i \in 1..Len(st.entries) |->
               [entry |-> st.entries[i],
                score |-> cosineSimilarity(queryEmbedding, st.entries[i].embedding)]],
           limit)

StoreSearch(st, queryEmbedding, limit) ==
    LET results == [i \in 1..Len(st.entries) |->
                      [entry |-> st.entries[i],
                       score |-> cosineSimilarity(queryEmbedding, st.entries[i].embedding)]]
    IN  Slice0(SortByScore(<<>>, results), limit)

----------------------------------------------------------------------------
(* The store used directly through IVectorStore *)

NoDocument == [status |-> "absent", chunkCount |-> 0]

\* pc: idle | parsing | embedding | done | failed.  overlap and crossed are history:
\* another pass on the same document was in flight together with this one; an
\* operation on another document changed the store while this one was in flight.
NoCall == [pc |-> "idle", doc |-> "A", n |-> 0, k |-> 0, overlap |-> FALSE, crossed |-> FALSE]

NoRet == [op |-> "none", ok |-> TRUE, value |-> 0, call |-> 0]

NoFound == [op |-> "none", results |-> <<>>]

VectorEntry(id, d, emb) ==
    [id |-> id, documentId |-> d, chunkIndex |-> 0, content |-> <<>>,
     embedding |-> emb, documentName |-> <<>>]

StoreEntries == {VectorEntry(id, d, emb) : id \in EntryIds, d \in DocIds, emb \in Vectors}

Batches == UNION {[1..n -> StoreEntries] : n \in 0..MaxBatch}

\* The session files: createSession names a file after a fresh uuid, here the
\* first unused of SessionFiles; UnknownSession is an id no file ever has.
NumSessions == 2      \* session files that can be created
NumRequests == 2      \* POST /api/chat requests, or addMessage calls
NumFetches == 2       \* OllamaClient calls

SessionName(i) == <<"s", i>>

SessionFiles == {SessionName(i) : i \in 1..NumSessions}

UnknownSession == SessionName(0)

RequestIds == 1..NumRequests

FetchIds == 1..NumFetches

NoSession == [exists |-> FALSE, title |-> <<>>, messages |-> <<>>]

\* pc: idle | generating | responded for a chat request, idle | read | done | failed
\* for an addMessage call.  session is the ConversationSession the call holds.
\* created, persisted, generated and overlap are history: the request created a
\* session file, the number of messages it saved, the number of generateResponse
\* calls it made, and another addMessage on the same session was between its read
\* and its save together with this one.
NoRequest ==
    [pc |-> "idle", sessionId |-> <<>>, message |-> [given |-> FALSE],
     session |-> NoSession, status |-> 0, created |-> FALSE, persisted |-> 0,
     generated |-> 0, overlap |-> FALSE]

\* pc: idle | fetching | reading | errorBody | resolved | rejected.  armed: the
\* setTimeout of fetchWithTimeout is pending.  elapsed is history: timeoutMs have
\* passed since the call was made.
NoError == [class |-> "none", code |-> "none", fetch |-> FALSE]

NoFetch ==
    [pc |-> "idle", kind |-> "none", armed |-> FALSE, elapsed |-> FALSE,
     error |-> NoError]

NoScan ==
    [pc |-> "idle", text |-> <<>>,
     config |-> [chunkSize |-> 0, chunkOverlap |-> 0, minChunkSize |-> 0],
     position |-> 0, chunks |-> <<>>, end |-> 0, corrected |-> FALSE,
     iterations |-> 0]

InitSide ==
    /\ sessions = [id \in SessionFiles |-> NoSession]
    /\ requests = [r \in RequestIds |-> NoRequest]
    /\ fetches = [f \in FetchIds |-> NoFetch]
    /\ scan = NoScan

InitCommon ==
    /\ vectorStore = EmptyStore
    /\ ret = NoRet
    /\ calls = [c \in CallIds |-> NoCall]
    /\ lastPass = [d \in DocIds |-> 0]
    /\ documents = [d \in DocIds |-> NoDocument]
    /\ deleted = {}
    /\ found = NoFound
    /\ InitSide

Add(entry) ==
    /\ vectorStore' = StoreAdd(vectorStore, entry)
    /\ ret' = [op |-> "add", ok |-> TRUE, call |-> 0, value |-> 0]
    /\ found' = NoFound
    /\ UNCHANGED <<calls, lastPass, documents, deleted, sideVars>>

AddMany(es) ==
    /\ vectorStore' = StoreAddMany(vectorStore, es)
    /\ ret' = [op |-> "addMany", ok |-> TRUE, call |-> 0, value |-> 0]
    /\ found' = NoFound
    /\ UNCHANGED <<calls, lastPass, documents, deleted, sideVars>>

Delete(id) ==
    LET r == StoreDelete(vectorStore, id)
    IN  /\ vectorStore' = r.store
        /\ ret' = [op |-> "delete", ok |-> TRUE, call |-> 0, value |-> IF r.value THEN 1 ELSE 0]
        /\ found' = NoFound
    /\ UNCHANGED <<calls, lastPass, documents, deleted, sideVars>>

DeleteByDocumentId(d) ==
    LET r == StoreDeleteByDocumentId(vectorStore, d)
    IN  /\ vectorStore' = r.store
        /\ ret' = [op |-> "deleteByDocumentId", ok |-> TRUE, call |-> 0, value |-> r.value]
        /\ found' = NoFound
    /\ UNCHANGED <<calls, lastPass, documents, deleted, sideVars>>

Clear ==
    /\ vectorStore' = EmptyStore
    /\ ret' = [op |-> "clear", ok |-> TRUE, call |-> 0, value |-> 0]
    /\ found' = NoFound
    /\ UNCHANGED <<calls, lastPass, documents, deleted, sideVars>>

Search(queryEmbedding, limit) ==
    /\ ret' = IF SearchThrows(vectorStore, queryEmbedding)
              THEN [op |-> "search", ok |-> FALSE, call |-> 0, value |-> 0]
              ELSE [op |-> "search", ok |-> TRUE, call |-> 0, value |-> Len(StoreSearch(vectorStore, queryEmbedding, limit))]
    /\ found' = NoFound
    /\ UNCHANGED <<vectorStore, calls, lastPass, documents, deleted, sideVars>>

NextStore ==
    \/ \E entry \in StoreEntries : Add(entry)
    \/ \E es \in Batches : AddMany(es)
    \/ \E id \in EntryIds : Delete(id)
    \/ \E d \in DocIds : DeleteByDocumentId(d)
    \/ Clear
    \/ \E q \in Vectors, limit \in 0..MaxLimit : Search(q, limit)

SpecStore == InitCommon /\ [][NextStore]_vars

----------------------------------------------------------------------------
(* RAGEngine.indexDocument / removeDocument over the shared store.  A pass *)
(* yields to other work at each await: after the purge (parseDocument) and *)
(* before each embedding; the chunks are added in one go after the last.   *)

InFlight(c) == calls[c].pc \in {"parsing", "embedding"}

\* chunk ids are fresh uuids: one per pass and chunk
ChunkEntry(c, i, d) ==
    [id |-> <<c, i>>, documentId |-> d, chunkIndex |-> i - 1, content |-> <<>>,
     embedding |-> <<1, 0>>, documentName |-> <<>>]

PassEntries(c) == [i \in 1..calls[c].n |-> ChunkEntry(c, i, calls[c].doc)]

\* the history flags of the passes in flight when the store changes under document d
Touch(cs, d) ==
    [c \in CallIds |->
        IF cs[c].pc \in {"parsing", "embedding"} /\ cs[c].doc # d
        THEN [cs[c] EXCEPT !.crossed = TRUE] ELSE cs[c]]

\* indexDocument up to its first await: purge, then parseDocument is awaited
IndexDocumentBegin(c, d) ==
    /\ calls[c].pc = "idle"
    /\ \A c2 \in CallIds : c2 < c => calls[c2].pc # "idle"
    /\ vectorStore' = StoreDeleteByDocumentId(vectorStore, d).store
    /\ LET same == {c2 \in CallIds : InFlight(c2) /\ calls[c2].doc = d}
           marked == [c2 \in CallIds |->
                        IF c2 \in same THEN [calls[c2] EXCEPT !.overlap = TRUE]
                        ELSE calls[c2]]
       IN  calls' = [Touch(marked, d) EXCEPT ![c] =
                        [pc |-> "parsing", doc |-> d, n |-> 0, k |-> 0,
                         overlap |-> same # {}, crossed |-> FALSE]]
    /\ lastPass' = [lastPass EXCEPT ![d] = 0]
    /\ ret' = NoRet
    /\ found' = NoFound

\* parseDocument resolves and splitIntoChunks yields n chunks
ParseResolved(c, n) ==
    /\ calls[c].pc = "parsing"
    /\ calls' = [calls EXCEPT ![c].pc = "embedding", ![c].n = n]
    /\ ret' = NoRet
    /\ found' = NoFound
    /\ UNCHANGED <<vectorStore, lastPass>>

\* generateEmbedding resolves for the next chunk
EmbeddingResolved(c) ==
    /\ calls[c].pc = "embedding"
    /\ calls[c].k < calls[c].n
    /\ calls' = [calls EXCEPT ![c].k = @ + 1]
    /\ ret' = NoRet
    /\ found' = NoFound
    /\ UNCHANGED <<vectorStore, lastPass>>

\* parseDocument or generateEmbedding rejects: indexDocument rejects
IndexDocumentRejected(c) ==
    /\ \/ calls[c].pc = "parsing"
       \/ calls[c].pc = "embedding" /\ calls[c].k < calls[c].n
    /\ calls' = [calls EXCEPT ![c].pc = "failed"]
    /\ ret' = [op |-> "indexDocument", ok |-> FALSE, call |-> c, value |-> 0]
    /\ found' = NoFound
    /\ UNCHANGED <<vectorStore, lastPass>>

\* chunkDocument has resolved: every chunk is added, chunks.length is returned
IndexDocumentStore(c) ==
    /\ calls[c].pc = "embedding"
    /\ calls[c].k = calls[c].n
    /\ vectorStore' = StoreAddMany(vectorStore, PassEntries(c))
    /\ calls' = [Touch(calls, calls[c].doc) EXCEPT ![c].pc = "done"]
    /\ lastPass' = [lastPass EXCEPT ![calls[c].doc] = c]
    /\ ret' = [op |-> "indexDocument", ok |-> TRUE, call |-> c, value |-> calls[c].n]
    /\ found' = NoFound

\* removeDocument(documentId)
RemoveDocumentStep(d) ==
    LET r == StoreDeleteByDocumentId(vectorStore, d)
    IN  /\ vectorStore' = r.store
        /\ calls' = Touch(calls, d)
        /\ lastPass' = [lastPass EXCEPT ![d] = 0]
        /\ found' = NoFound

IndexDocument(c, d) == IndexDocumentBegin(c, d) /\ UNCHANGED <<documents, deleted, sideVars>>

ParseDone(c, n) == ParseResolved(c, n) /\ UNCHANGED <<documents, deleted, sideVars>>

EmbeddingDone(c) == EmbeddingResolved(c) /\ UNCHANGED <<documents, deleted, sideVars>>

IndexDocumentFails(c) == IndexDocumentRejected(c) /\ UNCHANGED <<documents, deleted, sideVars>>

IndexDocumentReturns(c) == IndexDocumentStore(c) /\ UNCHANGED <<documents, deleted, sideVars>>

RemoveDocument(d) ==
    /\ RemoveDocumentStep(d)
    /\ ret' = [op |-> "removeDocument", ok |-> TRUE, call |-> 0,
               value |-> StoreDeleteByDocumentId(vectorStore, d).value]
    /\ UNCHANGED <<documents, deleted, sideVars>>

NextEngine ==
    \/ \E c \in CallIds, d \in DocIds : IndexDocument(c, d)
    \/ \E c \in CallIds, n \in 0..MaxChunks : ParseDone(c, n)
    \/ \E c \in CallIds : EmbeddingDone(c)
    \/ \E c \in CallIds : IndexDocumentFails(c)
    \/ \E c \in CallIds : IndexDocumentReturns(c)
    \/ \E d \in DocIds : RemoveDocument(d)

SpecEngine == InitCommon /\ [][NextEngine]_vars

----------------------------------------------------------------------------
(* The server: POST /api/documents saves the document as pending and       *)
(* starts indexDocumentAsync without awaiting it; DELETE /api/documents/:id *)
(* purges the index and unlinks the stored document.  Document ids are     *)
(* fresh uuids, so an id is uploaded at most once.                         *)

Stored(d) == documents[d].status # "absent"

\* updateDocumentStatus(id, status, chunkCount): throws when the document is gone
\* (faulty variant: a failed ingestion is not recorded)
UpdateDocumentStatus_IndexedOnly(docs, d, status, chunkCount) ==
    IF docs[d].status = "absent" \/ status # "indexed" THEN docs
    ELSE [docs EXCEPT ![d] = [status |-> status, chunkCount |-> chunkCount]]

UpdateDocumentStatus(docs, d, status, chunkCount) ==
    IF docs[d].status = "absent" THEN docs
    ELSE [docs EXCEPT ![d] =
            [status |-> status,
             chunkCount |-> IF status = "indexed" THEN chunkCount ELSE @.chunkCount]]

\* A request handler starts on a fresh turn of the event loop: not while a pass
\* whose last awaited promise has resolved still has its continuation to run.
NoContinuationPending ==
    \A c \in CallIds : ~(calls[c].pc = "embedding" /\ calls[c].k = calls[c].n)

UploadDocument(c, d) ==
    /\ NoContinuationPending
    /\ ~Stored(d)
    /\ d \notin deleted
    /\ \A c2 \in CallIds : calls[c2].doc = d => calls[c2].pc = "idle"
    /\ IndexDocumentBegin(c, d)
    /\ documents' = [documents EXCEPT ![d] = [status |-> "pending", chunkCount |-> 0]]
    /\ UNCHANGED <<deleted, sideVars>>

\* indexDocumentAsync after indexDocument resolved
IndexDocumentAsyncIndexed(c) ==
    /\ IndexDocumentStore(c)
    /\ documents' = UpdateDocumentStatus(documents, calls[c].doc, "indexed", calls[c].n)
    /\ UNCHANGED <<deleted, sideVars>>

\* indexDocumentAsync's catch branch
IndexDocumentAsyncError(c) ==
    /\ IndexDocumentRejected(c)
    /\ documents' = UpdateDocumentStatus(documents, calls[c].doc, "error", 0)
    /\ UNCHANGED <<deleted, sideVars>>

DeleteDocumentRoute(d) ==
    /\ NoContinuationPending
    /\ RemoveDocumentStep(d)
    /\ documents' = [documents EXCEPT ![d] = NoDocument]
    /\ deleted' = IF Stored(d) THEN deleted \cup {d} ELSE deleted
    /\ ret' = [op |-> "DELETE", ok |-> Stored(d), call |-> 0, value |-> 0]
    /\ UNCHANGED sideVars

NextServer ==
    \/ \E c \in CallIds, d \in DocIds : UploadDocument(c, d)
    \/ \E c \in CallIds, n \in 0..MaxChunks : ParseDone(c, n)
    \/ \E c \in CallIds : EmbeddingDone(c)
    \/ \E c \in CallIds : IndexDocumentAsyncIndexed(c)
    \/ \E c \in CallIds : IndexDocumentAsyncError(c)
    \/ \E d \in DocIds : DeleteDocumentRoute(d)

SpecServer == InitCommon /\ [][NextServer]_vars

\* The process ends and a new one runs createApp: the vector store is a new,
\* empty one, the passes in flight are gone with the old process, and the stored
\* documents are still in the storage directory.
Restart ==
    /\ vectorStore' = EmptyStore
    /\ calls' = [c \in CallIds |->
                   IF InFlight(c) THEN [calls[c] EXCEPT !.pc = "lost"] ELSE calls[c]]
    /\ lastPass' = [d \in DocIds |-> 0]
    /\ ret' = NoRet
    /\ found' = NoFound
    /\ UNCHANGED <<documents, deleted, sideVars>>

NextServerRestart ==
    \/ NextServer
    \/ Restart

SpecServerRestart == InitCommon /\ [][NextServerRestart]_vars

----------------------------------------------------------------------------
(* Strings are sequences of one-character strings. *)

UpperCase == <<"A", "B", "C", "D", "E", "F", "G", "H", "I", "J", "K", "L", "M",
               "N", "O", "P", "Q", "R", "S", "T", "U", "V", "W", "X", "Y", "Z">>

LowerCase == <<"a", "b", "c", "d", "e", "f", "g", "h", "i", "j", "k", "l", "m",
               "n", "o", "p", "q", "r", "s", "t", "u", "v", "w", "x", "y", "z">>

\* String.prototype.toLowerCase
toLowerCase(s) ==
    [i \in 1..Len(s) |->
        IF \E k \in 1..26 : UpperCase[k] = s[i]
        THEN LowerCase[CHOOSE k \in 1..26 : UpperCase[k] = s[i]]
        ELSE s[i]]

MatchesAt(s, i, lit) ==
    /\ i + Len(lit) - 1 <= Len(s)
    /\ \A k \in 1..Len(lit) : s[i + k - 1] = lit[k]

\* String.prototype.includes
Includes(s, lit) == \E i \in 1..(Len(s) - Len(lit) + 1) : MatchesAt(s, i, lit)

\* String.prototype.replace(/.../g, '') for a pattern that is an alternation of
\* literals no two of which match at the same place: leftmost matches, left to right
RECURSIVE RemoveAll(_, _, _)
RemoveAll(s, i, lits) ==
    IF i > Len(s) THEN <<>>
    ELSE IF \E lit \in lits : MatchesAt(s, i, lit)
    THEN RemoveAll(s, i + Len(CHOOSE lit \in lits : MatchesAt(s, i, lit)), lits)
    ELSE <<s[i]>> \o RemoveAll(s, i + 1, lits)

WhiteSpace == {" ", "\t", "\n"}

\* String.prototype.split(/\s+/): the pieces between maximal runs of white space
\* (an empty piece comes first or last when the string starts or ends with one)
RECURSIVE SplitWhiteSpace(_, _, _)
SplitWhiteSpace(s, i, piece) ==
    IF i > Len(s) THEN <<piece>>
    ELSE IF s[i] \in WhiteSpace
    THEN IF i > 1 /\ s[i - 1] \in WhiteSpace
         THEN SplitWhiteSpace(s, i + 1, piece)
         ELSE <<piece>> \o SplitWhiteSpace(s, i + 1, <<>>)
    ELSE SplitWhiteSpace(s, i + 1, Append(piece, s[i]))

----------------------------------------------------------------------------
(* RAGEngine.extractTopicsFromQuery *)

\* /how (do|can|to) (i |you )?(set up|install|configure|use|run|start)/gi
HowToPattern ==
    {<<"h", "o", "w", " ">> \o aux \o <<" ">> \o who \o verb :
        aux \in {<<"d", "o">>, <<"c", "a", "n">>, <<"t", "o">>},
        who \in {<<>>, <<"i", " ">>, <<"y", "o", "u", " ">>},
        verb \in {<<"s", "e", "t", " ", "u", "p">>, <<"i", "n", "s", "t", "a", "l", "l">>,
                  <<"c", "o", "n", "f", "i", "g", "u", "r", "e">>, <<"u", "s", "e">>,
                  <<"r", "u", "n">>, <<"s", "t", "a", "r", "t">>}}

\* the patterns in the order they are removed
QuestionPatterns ==
    << HowToPattern,
       {<<"w", "h", "a", "t", " ", "i", "s">>},
       {<<"t", "e", "l", "l", " ", "m", "e", " ", "a", "b", "o", "u", "t">>},
       {<<"e", "x", "p", "l", "a", "i", "n">>},
       {<<"h", "e", "l", "p", " ", "w", "i", "t", "h">>} >>

stopWords ==
    { <<"t", "h", "e">>, <<"a">>, <<"a", "n">>, <<"o", "n">>, <<"m", "y">>,
      <<"c", "o", "m", "p", "u", "t", "e", "r">>, <<"m", "a", "c", "h", "i", "n", "e">>,
      <<"s", "y", "s", "t", "e", "m">>, <<"p", "l", "e", "a", "s", "e">>, <<"c", "a", "n">>,
      <<"y", "o", "u">>, <<"i">>, <<"m", "e">>, <<"h", "o", "w">>, <<"w", "h", "a", "t">>,
      <<"w", "h", "e", "r", "e">>, <<"w", "h", "e", "n">>, <<"w", "h", "y">>, <<"i", "s">>,
      <<"a", "r", "e">>, <<"d", "o">>, <<"d", "o", "e", "s">>, <<"t", "o">>, <<"f", "o", "r">>,
      <<"w", "i", "t", "h">>, <<"a", "n", "d">>, <<"o", "r">>, <<"i", "n">>, <<"i", "t">>,
      <<"t", "h", "i", "s">>, <<"t", "h", "a", "t">> }

Punctuation == {"?", ".", ",", "!"}

RECURSIVE RemovePatterns(_, _)
RemovePatterns(s, k) ==
    IF k > Len(QuestionPatterns) THEN s
    ELSE RemovePatterns(RemoveAll(s, 1, QuestionPatterns[k]), k + 1)

extractTopicsFromQuery(query) ==
    LET cleaned == RemovePatterns(toLowerCase(query), 1)
        words == SplitWhiteSpace(SelectSeq(cleaned, LAMBDA ch : ch \notin Punctuation), 1, <<>>)
    IN  SelectSeq(words, LAMBDA word : Len(word) > 2 /\ word \notin stopWords)

----------------------------------------------------------------------------
(* The queries and the two documents of the retrieval scenarios *)

QueryConfigureBeta ==
    <<"h", "o", "w", " ", "d", "o", " ", "I", " ", "c", "o", "n", "f", "i",
      "g", "u", "r", "e", " ", "b", "e", "t", "a">>

QueryGamma ==
    <<"W", "h", "a", "t", " ", "i", "s", " ", "g", "a", "m", "m", "a", "?">>

QueryBetaQuickly ==
    <<"h", "o", "w", " ", "d", "o", " ", "I", " ", "c", "o", "n", "f", "i",
      "g", "u", "r", "e", " ", "b", "e", "t", "a", " ", "q", "u", "i", "c", "k", "l", "y">>

QueryNoTopic ==
    <<"h", "o", "w", " ", "d", "o", " ", "y", "o", "u", " ", "u", "s", "e", " ",
      "i", "t">>

QueryAlpha ==
    <<"T", "e", "l", "l", " ", "m", "e", " ", "a", "b", "o", "u", "t", " ", "A",
      "L", "P", "H", "A">>

QuerySetup ==
    <<"e", "x", "p", "l", "a", "i", "n", " ", "t", "h", "e", " ", "s", "e", "t",
      "u", "p">>

Queries ==
    {QueryConfigureBeta, QueryGamma, QueryBetaQuickly,
     QueryNoTopic, QueryAlpha, QuerySetup}

\* extractTopicsFromQuery of each query, computed once
QueryTopics == [query \in Queries |-> extractTopicsFromQuery(query)]

AlphaGuide ==
    <<"a", "l", "p", "h", "a", "-", "g", "u", "i", "d", "e">>

BetaGuide ==
    <<"b", "e", "t", "a", "-", "g", "u", "i", "d", "e">>

AlphaSetup ==
    <<"A", "l", "p", "h", "a", " ", "s", "e", "t", "u", "p">>

InstallSteps ==
    <<"I", "n", "s", "t", "a", "l", "l", " ", "s", "t", "e", "p", "s", ".">>

BetaConfig ==
    <<"B", "e", "t", "a", " ", "c", "o", "n", "f", "i", "g">>

OpenPorts ==
    <<"O", "p", "e", "n", " ", "t", "h", "e", " ", "p", "o", "r", "t", "s">>

DocumentName(d) == IF d = "A" THEN AlphaGuide ELSE BetaGuide

ChunkContent(d, i) ==
    IF d = "A" THEN (IF i % 2 = 1 THEN AlphaSetup ELSE InstallSteps)
    ELSE (IF i % 2 = 1 THEN BetaConfig ELSE OpenPorts)

\* chunkDocument's DocumentChunk passed through chunkToVectorEntry
IndexedChunk(c, i, d, emb) ==
    [id |-> <<c, i>>, documentId |-> d, chunkIndex |-> i - 1, content |-> ChunkContent(d, i),
     embedding |-> emb, documentName |-> DocumentName(d)]

----------------------------------------------------------------------------
(* RAGEngine.searchRelevantChunks *)

\* similarityThreshold 0.35 as a score: 7 / sqrt(400)
SimilarityThreshold == [n |-> 7, d |-> 400]

vectorEntryToChunk(result) ==
    [id |-> result.entry.id, documentId |-> result.entry.documentId,
     content |-> result.entry.content, embedding |-> result.entry.embedding,
     metadata |-> [documentName |-> result.entry.documentName,
                   chunkIndex |-> result.entry.chunkIndex]]

\* (faulty variant: only the chunk's content is looked at)
ChunkMentionsTopic_ContentOnly(chunk, topic) == Includes(toLowerCase(chunk.content), topic)

ChunkMentionsTopic(chunk, topic) ==
    \/ Includes(toLowerCase(chunk.metadata.documentName), topic)
    \/ Includes(toLowerCase(chunk.content), topic)

\* (faulty variant: results below the threshold are kept)
ThresholdFiltered_KeepAll(st, queryEmbedding, limit) ==
    LET passing == StoreSearch(st, queryEmbedding, limit)
    IN  [i \in 1..Len(passing) |-> vectorEntryToChunk(passing[i])]

ThresholdFiltered(st, queryEmbedding, limit) ==
    LET passing == SelectSeq(StoreSearch(st, queryEmbedding, limit),
                             LAMBDA r : ScoreGE(r.score, SimilarityThreshold))
    IN  [i \in 1..Len(passing) |-> vectorEntryToChunk(passing[i])]

\* (faulty variants: the guard falls back to every chunk; there is no guard)
searchRelevantChunks_FallBack(st, query, queryEmbedding, limit) ==
    LET chunks == ThresholdFiltered(st, queryEmbedding, limit)
        queryTopics == QueryTopics[query]
        filteredChunks ==
            SelectSeq(chunks, LAMBDA chunk :
                \E k \in 1..Len(queryTopics) : ChunkMentionsTopic(chunk, queryTopics[k]))
    IN  IF Len(queryTopics) > 0 /\ Len(filteredChunks) > 0 THEN filteredChunks ELSE chunks

searchRelevantChunks_NoGuard(st, query, queryEmbedding, limit) ==
    ThresholdFiltered(st, queryEmbedding, limit)

searchRelevantChunks(st, query, queryEmbedding, limit) ==
    LET chunks == ThresholdFiltered(st, queryEmbedding, limit)
        queryTopics == QueryTopics[query]
        filteredChunks ==
            SelectSeq(chunks, LAMBDA chunk :
                \E k \in 1..Len(queryTopics) : ChunkMentionsTopic(chunk, queryTopics[k]))
    IN  IF Len(queryTopics) > 0
        THEN IF Len(filteredChunks) > 0 THEN filteredChunks ELSE <<>>
        ELSE chunks

\* embeddings the provider may return for a chunk and for a query
ChunkVectors == {<<1, 0>>, <<1, 1>>, <<0, 1>>}

QueryVectors == {<<1, 0>>, <<1, 1>>}

EmbeddingLists == UNION {[1..n -> ChunkVectors] : n \in 0..MaxChunks}

PassChunks(c, d, embs) == [i \in 1..Len(embs) |-> IndexedChunk(c, i, d, embs[i])]

\* the index after alpha-guide and beta-guide were ingested, in either order
IndexedStore(first, embsA, embsB) ==
    IF first = "A"
    THEN StoreAddMany(StoreAddMany(EmptyStore, PassChunks(1, "A", embsA)),
                      PassChunks(2, "B", embsB))
    ELSE StoreAddMany(StoreAddMany(EmptyStore, PassChunks(1, "B", embsB)),
                      PassChunks(2, "A", embsA))

InitSearch ==
    /\ \E first \in DocIds, embsA \in EmbeddingLists, embsB \in EmbeddingLists :
          vectorStore = IndexedStore(first, embsA, embsB)
    /\ ret = NoRet
    /\ calls = [c \in CallIds |-> NoCall]
    /\ lastPass = [d \in DocIds |-> 0]
    /\ documents = [d \in DocIds |-> NoDocument]
    /\ deleted = {}
    /\ found = NoFound
    /\ InitSide

\* a search leaves the store as it is, so a run of this specification makes one
SearchRelevantChunks(query, queryEmbedding, limit) ==
    /\ found = NoFound
    /\ IF SearchThrows(vectorStore, queryEmbedding)
       THEN /\ found' = NoFound
            /\ ret' = [op |-> "searchRelevantChunks", ok |-> FALSE, call |-> 0, value |-> 0]
       ELSE LET chunks == searchRelevantChunks(vectorStore, query, queryEmbedding, limit)
            IN  /\ found' = [op |-> "searchRelevantChunks", query |-> query,
                             queryEmbedding |-> queryEmbedding, limit |-> limit,
                             results |-> chunks]
                /\ ret' = [op |-> "searchRelevantChunks", ok |-> TRUE, call |-> 0,
                           value |-> Len(chunks)]
    /\ UNCHANGED <<vectorStore, calls, lastPass, documents, deleted, sideVars>>

NextSearch ==
    \E query \in Queries, queryEmbedding \in QueryVectors, limit \in 0..MaxLimit :
        SearchRelevantChunks(query, queryEmbedding, limit)

SpecSearch == InitSearch /\ [][NextSearch]_vars

----------------------------------------------------------------------------
(* InMemoryVectorStore.search with its results kept: entries are added and *)
(* overwritten one by one, then ranked against a query.                    *)

\* embeddings of the ranked entries: four of dimension 2, one of dimension 3
RankVectors == {<<1, 0>>, <<1, 1>>, <<0, 1>>, <<-1, 0>>, <<1, 0, 0>>}

RankEntries == {VectorEntry(id, "A", emb) : id \in EntryIds, emb \in RankVectors}

RankAdd(entry) == Add(entry)

RankSearch(queryEmbedding, limit) ==
    /\ found = NoFound
    /\ IF SearchThrows(vectorStore, queryEmbedding)
       THEN /\ found' = [op |-> "search", ok |-> FALSE, queryEmbedding |-> queryEmbedding,
                         limit |-> limit, results |-> <<>>]
            /\ ret' = [op |-> "search", ok |-> FALSE, call |-> 0, value |-> 0]
       ELSE LET results == StoreSearch(vectorStore, queryEmbedding, limit)
            IN  /\ found' = [op |-> "search", ok |-> TRUE, queryEmbedding |-> queryEmbedding,
                             limit |-> limit, results |-> results]
                /\ ret' = [op |-> "search", ok |-> TRUE, call |-> 0, value |-> Len(results)]
    /\ UNCHANGED <<vectorStore, calls, lastPass, documents, deleted, sideVars>>

NextRank ==
    \/ \E entry \in RankEntries : RankAdd(entry)
    \/ \E queryEmbedding \in QueryVectors, limit \in 0..MaxLimit :
          RankSearch(queryEmbedding, limit)

SpecRank == InitCommon /\ [][NextRank]_vars

----------------------------------------------------------------------------
(* documentChunker: splitIntoChunks and findNaturalBreak.  Positions are   *)
(* the code's 0-based offsets into the text.                               *)

MaxPieces == 4        \* pieces a text is put together from
SmallChunkSize == 3   \* the small chunkSize of a drawn config
MaxChunkSize == 7     \* the large chunkSize of a drawn config
MaxOverlap == 2       \* largest chunkOverlap of a drawn config
MaxMinSize == 3       \* largest minChunkSize of a drawn config

DefaultChunkSize == 1000
DefaultChunkOverlap == 200
DefaultMinChunkSize == 100

DEFAULT_CHUNKING_CONFIG ==
    [chunkSize |-> DefaultChunkSize, chunkOverlap |-> DefaultChunkOverlap,
     minChunkSize |-> DefaultMinChunkSize]

Max(a, b) == IF a >= b THEN a ELSE b

\* String.prototype.slice(a, b) for 0 <= a <= b <= length
Slice(s, a, b) == SubSeq(s, a + 1, b)

\* how many white-space characters String.prototype.trim drops in front
LeadingWhiteSpace(s) ==
    IF \A i \in 1..Len(s) : s[i] \in WhiteSpace THEN Len(s)
    ELSE (CHOOSE i \in 1..Len(s) :
             s[i] \notin WhiteSpace /\ \A j \in 1..(i - 1) : s[j] \in WhiteSpace) - 1

\* String.prototype.trim
Trim(s) ==
    IF \A i \in 1..Len(s) : s[i] \in WhiteSpace THEN <<>>
    ELSE LET last == CHOOSE i \in 1..Len(s) :
                        s[i] \notin WhiteSpace /\ \A j \in (i + 1)..Len(s) : s[j] \in WhiteSpace
         IN  SubSeq(s, LeadingWhiteSpace(s) + 1, last)

\* String.prototype.lastIndexOf: -1 when lit does not occur
LastIndexOf(s, lit) ==
    LET hits == {i \in 0..(Len(s) - Len(lit)) : MatchesAt(s, i + 1, lit)}
    IN  IF hits = {} THEN -1
        ELSE CHOOSE i \in hits : \A j \in hits : j <= i

SentenceEnd == {".", "!", "?"}

\* the last character of the white-space run that starts at index i (1-based)
RunEnd(s, i) ==
    CHOOSE r \in i..Len(s) :
        /\ \A j \in i..r : s[j] \in WhiteSpace
        /\ r = Len(s) \/ s[r + 1] \notin WhiteSpace

\* the 1-based indices where /[.!?]\s+(?=[A-Z])/g matches
SentenceEndMatches(s) ==
    {i \in 1..(Len(s) - 2) :
        /\ s[i] \in SentenceEnd
        /\ s[i + 1] \in WhiteSpace
        /\ RunEnd(s, i + 1) < Len(s)
        /\ s[RunEnd(s, i + 1) + 1] \in Range(UpperCase)}

\* x > length * 0.5 and x > length * 0.7, in exact arithmetic
findNaturalBreak(text, start, targetEnd) ==
    LET searchWindow == Slice(text, start, targetEnd)
        paragraphBreak == LastIndexOf(searchWindow, <<"\n", "\n">>)
        matches == SentenceEndMatches(searchWindow)
        lastAt == CHOOSE i \in matches : \A j \in matches : j <= i
        lastMatch == SubSeq(searchWindow, lastAt, RunEnd(searchWindow, lastAt + 1))
        lastSentenceEnd == LastIndexOf(searchWindow, lastMatch)
        lastSpace == LastIndexOf(searchWindow, <<" ">>)
    IN  IF 2 * paragraphBreak > Len(searchWindow)
        THEN start + paragraphBreak + 2
        ELSE IF matches # {} /\ 2 * lastSentenceEnd > Len(searchWindow)
        THEN start + lastSentenceEnd + Len(lastMatch)
        ELSE IF 10 * lastSpace > 7 * Len(searchWindow)
        THEN start + lastSpace + 1
        ELSE targetEnd

\* One iteration of the while loop of splitIntoChunks, from a position below the
\* text's length: the position and the chunks after it, the window's right edge,
\* and whether the stall correction moved the position there.  A chunk carries,
\* besides the code's content and chunkIndex, the offsets [from, to) of its content
\* in the text.
\* (faulty variant: the step is not floored at 1)
SplitStep_NoFloor(text, config, position, chunks) ==
    LET target == Min(position + config.chunkSize, Len(text))
        end == IF target < Len(text) THEN findNaturalBreak(text, position, target)
               ELSE target
        window == Slice(text, position, end)
        chunkContent == Trim(window)
        from == position + LeadingWhiteSpace(window)
        pushed == IF Len(chunkContent) >= config.minChunkSize
                  THEN Append(chunks, [content |-> chunkContent, chunkIndex |-> Len(chunks),
                                       from |-> from, to |-> from + Len(chunkContent)])
                  ELSE chunks
        moved == position + (end - position - config.chunkOverlap)
        stalled == moved <= Len(pushed) * (config.chunkSize - config.chunkOverlap)
                               - config.chunkSize
    IN  [position |-> IF stalled THEN end ELSE moved, chunks |-> pushed, end |-> end,
         corrected |-> stalled /\ moved # end]

SplitStep(text, config, position, chunks) ==
    LET target == Min(position + config.chunkSize, Len(text))
        end == IF target < Len(text) THEN findNaturalBreak(text, position, target)
               ELSE target
        window == Slice(text, position, end)
        chunkContent == Trim(window)
        from == position + LeadingWhiteSpace(window)
        pushed == IF Len(chunkContent) >= config.minChunkSize
                  THEN Append(chunks, [content |-> chunkContent, chunkIndex |-> Len(chunks),
                                       from |-> from, to |-> from + Len(chunkContent)])
                  ELSE chunks
        step == Max(1, end - position - config.chunkOverlap)
        moved == position + step
        stalled == moved <= Len(pushed) * (config.chunkSize - config.chunkOverlap)
                               - config.chunkSize
    IN  [position |-> IF stalled THEN end ELSE moved, chunks |-> pushed, end |-> end,
         corrected |-> stalled /\ moved # end]

\* The while loop of splitIntoChunks
RECURSIVE SplitLoop(_, _, _, _)
SplitLoop(text, config, position, chunks) ==
    IF position >= Len(text) THEN chunks
    ELSE LET after == SplitStep(text, config, position, chunks)
         IN  SplitLoop(text, config, after.position, after.chunks)

\* (faulty variant: the single-chunk case is not trimmed)
splitIntoChunks_Untrimmed(text, config) ==
    IF Len(Trim(text)) = 0 THEN <<>>
    ELSE IF Len(text) <= config.chunkSize
    THEN << [content |-> text, chunkIndex |-> 0, from |-> 0, to |-> Len(text)] >>
    ELSE SplitLoop(text, config, 0, <<>>)

splitIntoChunks(text, config) ==
    IF Len(Trim(text)) = 0 THEN <<>>
    ELSE IF Len(text) <= config.chunkSize
    THEN << [content |-> Trim(text), chunkIndex |-> 0,
             from |-> LeadingWhiteSpace(text),
             to |-> LeadingWhiteSpace(text) + Len(Trim(text))] >>
    ELSE SplitLoop(text, config, 0, <<>>)

\* texts: a few pieces put one after another
Pieces == {<<"a", "a">>, <<" ">>, <<"\n", "\n">>, <<".", " ", "A">>}

RECURSIVE Flatten(_)
Flatten(ps) == IF ps = <<>> THEN <<>> ELSE Head(ps) \o Flatten(Tail(ps))

Texts == {Flatten(ps) : ps \in UNION {[1..n -> Pieces] : n \in 0..MaxPieces}}

Configs ==
    [chunkSize : {SmallChunkSize, MaxChunkSize}, chunkOverlap : 0..MaxOverlap,
     minChunkSize : 0..MaxMinSize]

\* 1200-character documents: one unbroken word, one word followed by blanks,
\* five-letter words, and sentences of 40 characters in paragraphs of 400
ScenarioTexts ==
    { [i \in 1..1200 |-> "a"],
      [i \in 1..1200 |-> IF i <= 50 THEN "a" ELSE " "],
      [i \in 1..1200 |-> IF i % 6 = 0 THEN " " ELSE "a"],
      [i \in 1..1200 |->
          IF i % 400 \in {399, 0} THEN "\n"
          ELSE IF i % 40 = 38 THEN "."
          ELSE IF i % 40 = 39 THEN " "
          ELSE IF i % 40 = 0 THEN "A"
          ELSE IF i % 8 = 5 THEN " " ELSE "a"] }

ChunkerInputs ==
    {[text |-> text, config |-> config] : text \in Texts, config \in Configs}
        \cup {[text |-> text, config |-> DEFAULT_CHUNKING_CONFIG] : text \in ScenarioTexts}

SplitIntoChunks(text, config) ==
    /\ found = NoFound
    /\ LET chunks == splitIntoChunks(text, config)
       IN  /\ found' = [op |-> "splitIntoChunks", text |-> text, config |-> config,
                        chunks |-> chunks]
           /\ ret' = [op |-> "splitIntoChunks", ok |-> TRUE, call |-> 0, value |-> Len(chunks)]
    /\ UNCHANGED <<vectorStore, calls, lastPass, documents, deleted, sideVars>>

\* one call per run: nothing is left to do once a result is recorded
NextChunker ==
    /\ found = NoFound
    /\ \E input \in ChunkerInputs : SplitIntoChunks(input.text, input.config)

SpecChunker == InitCommon /\ [][NextChunker]_vars

----------------------------------------------------------------------------
(* RAGEngine.generateResponse: retrieval, confidence, sources, notice.     *)
(* A confidence is kept exactly, as the fraction [n |-> , d |-> ] of two   *)
(* integers with d > 0.                                                    *)

MaxTopK == 3          \* largest config.topK

ExcerptLength == 100

DefaultConfidenceThreshold == [n |-> 1, d |-> 2]

ConfidenceThresholds == {DefaultConfidenceThreshold, [n |-> 9, d |-> 10]}

RagConfigs == [topK : 1..MaxTopK, confidenceThreshold : ConfidenceThresholds]

FractionLT(x, y) == x.n * y.d < y.n * x.d

FractionEQ(x, y) == x.n * y.d = y.n * x.d

\* (faulty variant: any retrieved chunk gives the full 0.9)
calculateConfidence_Flat(chunks, topK) ==
    IF Len(chunks) = 0 THEN [n |-> 1, d |-> 10] ELSE [n |-> 9, d |-> 10]

\* 0.1 without chunks, else 0.4 + Math.min(chunks.length / topK, 1) * 0.5 for topK > 0:
\* countFactor is Min(length, topK) / topK
calculateConfidence(chunks, topK) ==
    IF Len(chunks) = 0 THEN [n |-> 1, d |-> 10]
    ELSE LET countFactor == [n |-> Min(Len(chunks), topK), d |-> topK]
         IN  [n |-> 4 * countFactor.d + 5 * countFactor.n, d |-> 10 * countFactor.d]

truncateExcerpt(text, maxLength) ==
    IF Len(text) <= maxLength THEN text
    ELSE SubSeq(text, 1, maxLength - 3) \o <<".", ".", ".">>

RECURSIVE SourcesFrom(_, _, _)
SourcesFrom(chunks, seenDocs, sources) ==
    IF chunks = <<>> THEN sources
    ELSE LET chunk == Head(chunks)
         IN  IF chunk.documentId \in seenDocs
             THEN SourcesFrom(Tail(chunks), seenDocs, sources)
             ELSE SourcesFrom(Tail(chunks), seenDocs \cup {chunk.documentId},
                              Append(sources,
                                     [documentId |-> chunk.documentId,
                                      documentName |-> chunk.metadata.documentName,
                                      excerpt |-> truncateExcerpt(chunk.content, ExcerptLength)]))

\* (faulty variant: one source per chunk)
buildSourceReferences_PerChunk(chunks) ==
    [i \in 1..Len(chunks) |->
        [documentId |-> chunks[i].documentId,
         documentName |-> chunks[i].metadata.documentName,
         excerpt |-> truncateExcerpt(chunks[i].content, ExcerptLength)]]

buildSourceReferences(chunks) == SourcesFrom(chunks, {}, <<>>)

\* the notice, character by character (the warning sign is U+26A0 U+FE0F)
UncertaintyIndicator ==
    << "\n", "\n", "-", "-", "-", "\n", "U+26A0", "U+FE0F", " ", "*", "*",
      "N", "o", "t", "e", ":", "*", "*", " ", "I", "'", "m", " ", "n", "o",
      "t", " ", "f", "u", "l", "l", "y", " ", "c", "o", "n", "f", "i", "d",
      "e", "n", "t", " ", "i", "n", " ", "t", "h", "i", "s", " ", "a", "n",
      "s", "w", "e", "r", " ", "b", "a", "s", "e", "d", " ", "o", "n", " ",
      "t", "h", "e", " ", "a", "v", "a", "i", "l", "a", "b", "l", "e", " ",
      "d", "o", "c", "u", "m", "e", "n", "t", "a", "t", "i", "o", "n", ".",
      " ", "C", "o", "n", "s", "i", "d", "e", "r", " ", "c", "o", "n", "s",
      "u", "l", "t", "i", "n", "g", " ", "a", " ", "s", "e", "n", "i", "o",
      "r", " ", "e", "n", "g", "i", "n", "e", "e", "r", " ", "f", "o", "r",
      " ", "v", "e", "r", "i", "f", "i", "c", "a", "t", "i", "o", "n", "." >>

\* (faulty variant: the notice is never added)
addUncertaintyIndicator_Never(content) == content

addUncertaintyIndicator(content) == content \o UncertaintyIndicator

\* relevantChunks is kept beside the RAGResponse's content, sources and confidence
generateResponse(st, query, queryEmbedding, rawResponse, config) ==
    LET relevantChunks == searchRelevantChunks(st, query, queryEmbedding, config.topK)
        confidence == calculateConfidence(relevantChunks, config.topK)
        sources == buildSourceReferences(relevantChunks)
        content == IF FractionLT(confidence, config.confidenceThreshold)
                   THEN addUncertaintyIndicator(rawResponse)
                   ELSE rawResponse
    IN  [content |-> content, sources |-> sources, confidence |-> confidence,
         relevantChunks |-> relevantChunks]

\* chunk contents of the answered index: alpha-guide's first chunk is 101 characters
\* long, beta-guide's first exactly 100, its second 120, alpha-guide's second is short
PaddedLength(d, i) ==
    IF d = "A" THEN (IF i % 2 = 1 THEN ExcerptLength + 1 ELSE 0)
    ELSE (IF i % 2 = 1 THEN ExcerptLength ELSE ExcerptLength + 20)

PaddedContent(d, i) ==
    ChunkContent(d, i) \o [k \in 1..(PaddedLength(d, i) - Len(ChunkContent(d, i))) |-> "-"]

AnsweredChunks(c, d, embs) ==
    [i \in 1..Len(embs) |->
        [IndexedChunk(c, i, d, embs[i]) EXCEPT !.content = PaddedContent(d, i)]]

AnsweredStore(first, embsA, embsB) ==
    IF first = "A"
    THEN StoreAddMany(StoreAddMany(EmptyStore, AnsweredChunks(1, "A", embsA)),
                      AnsweredChunks(2, "B", embsB))
    ELSE StoreAddMany(StoreAddMany(EmptyStore, AnsweredChunks(1, "B", embsB)),
                      AnsweredChunks(2, "A", embsA))

AnsweredQueries == {QueryNoTopic, QueryConfigureBeta, QueryGamma}

\* what the provider's generateCompletion resolves with
Completion == <<"O", "K">>

InitResponse ==
    /\ \E first \in DocIds, embsA \in EmbeddingLists, embsB \in EmbeddingLists :
          vectorStore = AnsweredStore(first, embsA, embsB)
    /\ ret = NoRet
    /\ calls = [c \in CallIds |-> NoCall]
    /\ lastPass = [d \in DocIds |-> 0]
    /\ documents = [d \in DocIds |-> NoDocument]
    /\ deleted = {}
    /\ found = NoFound
    /\ InitSide

GenerateResponse(query, queryEmbedding, config) ==
    /\ found = NoFound
    /\ ret = NoRet
    /\ LET response == generateResponse(vectorStore, query, queryEmbedding, Completion, config)
       IN  /\ found' = [op |-> "generateResponse", query |-> query, config |-> config,
                        rawResponse |-> Completion, response |-> response]
           /\ ret' = [op |-> "generateResponse", ok |-> TRUE, call |-> 0,
                      value |-> Len(response.sources)]
    /\ UNCHANGED <<vectorStore, calls, lastPass, documents, deleted, sideVars>>

\* generateEmbedding or generateCompletion rejects
GenerateResponseFails ==
    /\ found = NoFound
    /\ ret = NoRet
    /\ ret' = [op |-> "generateResponse", ok |-> FALSE, call |-> 0, value |-> 0]
    /\ UNCHANGED <<vectorStore, calls, lastPass, documents, deleted, found, sideVars>>

NextResponse ==
    \/ \E query \in AnsweredQueries, queryEmbedding \in QueryVectors, config \in RagConfigs :
          GenerateResponse(query, queryEmbedding, config)
    \/ GenerateResponseFails

SpecResponse == InitResponse /\ [][NextResponse]_vars

----------------------------------------------------------------------------
(* queryProcessor: assembleContext and buildSystemPrompt.  An optional     *)
(* value is NotGiven (undefined, null) or Given(value).                    *)

MaxMessages == 2      \* messages a stored session holds
MaxDocuments == 2     \* chunks the document provider returns

DefaultMaxDocumentChunks == 5

NotGiven == [given |-> FALSE]

Given(value) == [given |-> TRUE, value |-> value]

DEFAULT_SYSTEM_PROMPT ==
    << "Y", "o", "u", " ", "a", "r", "e", " ", "a", " ", "h", "e", "l", "p",
      "f", "u", "l", " ", "T", "e", "c", "h", "n", "i", "c", "a", "l", " ",
      "A", "s", "s", "i", "s", "t", "a", "n", "t", " ", "d", "e", "s", "i",
      "g", "n", "e", "d", " ", "t", "o", " ", "h", "e", "l", "p", " ", "j",
      "u", "n", "i", "o", "r", " ", "e", "n", "g", "i", "n", "e", "e", "r",
      "s", " ", "a", "n", "d", " ", "i", "n", "t", "e", "r", "n", "s", " ",
      "w", "i", "t", "h", " ", "t", "e", "c", "h", "n", "i", "c", "a", "l",
      " ", "q", "u", "e", "s", "t", "i", "o", "n", "s", ".", "\n", "\n", "Y",
      "o", "u", "r", " ", "r", "e", "s", "p", "o", "n", "s", "i", "b", "i",
      "l", "i", "t", "i", "e", "s", ":", "\n", "-", " ", "P", "r", "o", "v",
      "i", "d", "e", " ", "a", "c", "c", "u", "r", "a", "t", "e", ",", " ",
      "c", "l", "e", "a", "r", " ", "t", "e", "c", "h", "n", "i", "c", "a",
      "l", " ", "e", "x", "p", "l", "a", "n", "a", "t", "i", "o", "n", "s",
      "\n", "-", " ", "I", "n", "c", "l", "u", "d", "e", " ", "c", "o", "d",
      "e", " ", "e", "x", "a", "m", "p", "l", "e", "s", " ", "w", "h", "e",
      "n", " ", "r", "e", "l", "e", "v", "a", "n", "t", ",", " ", "w", "i",
      "t", "h", " ", "p", "r", "o", "p", "e", "r", " ", "s", "y", "n", "t",
      "a", "x", " ", "h", "i", "g", "h", "l", "i", "g", "h", "t", "i", "n",
      "g", "\n", "-", " ", "R", "e", "f", "e", "r", "e", "n", "c", "e", " ",
      "s", "o", "u", "r", "c", "e", " ", "d", "o", "c", "u", "m", "e", "n",
      "t", "s", " ", "w", "h", "e", "n", " ", "a", "v", "a", "i", "l", "a",
      "b", "l", "e", "\n", "-", " ", "I", "f", " ", "y", "o", "u", "'", "r",
      "e", " ", "u", "n", "c", "e", "r", "t", "a", "i", "n", " ", "a", "b",
      "o", "u", "t", " ", "s", "o", "m", "e", "t", "h", "i", "n", "g", ",",
      " ", "c", "l", "e", "a", "r", "l", "y", " ", "i", "n", "d", "i", "c",
      "a", "t", "e", " ", "t", "h", "a", "t", " ", "a", "n", "d", " ", "s",
      "u", "g", "g", "e", "s", "t", " ", "c", "o", "n", "s", "u", "l", "t",
      "i", "n", "g", " ", "a", " ", "s", "e", "n", "i", "o", "r", " ", "e",
      "n", "g", "i", "n", "e", "e", "r", "\n", "-", " ", "B", "e", " ", "e",
      "n", "c", "o", "u", "r", "a", "g", "i", "n", "g", " ", "a", "n", "d",
      " ", "s", "u", "p", "p", "o", "r", "t", "i", "v", "e", " ", "-", " ",
      "r", "e", "m", "e", "m", "b", "e", "r", " ", "y", "o", "u", "r", " ",
      "a", "u", "d", "i", "e", "n", "c", "e", " ", "i", "s", " ", "l", "e",
      "a", "r", "n", "i", "n", "g", "\n", "\n", "G", "u", "i", "d", "e", "l",
      "i", "n", "e", "s", ":", "\n", "-", " ", "F", "o", "r", "m", "a", "t",
      " ", "r", "e", "s", "p", "o", "n", "s", "e", "s", " ", "u", "s", "i",
      "n", "g", " ", "M", "a", "r", "k", "d", "o", "w", "n", " ", "f", "o",
      "r", " ", "r", "e", "a", "d", "a", "b", "i", "l", "i", "t", "y", "\n",
      "-", " ", "U", "s", "e", " ", "c", "o", "d", "e", " ", "b", "l", "o",
      "c", "k", "s", " ", "w", "i", "t", "h", " ", "l", "a", "n", "g", "u",
      "a", "g", "e", " ", "i", "d", "e", "n", "t", "i", "f", "i", "e", "r",
      "s", " ", "f", "o", "r", " ", "c", "o", "d", "e", " ", "e", "x", "a",
      "m", "p", "l", "e", "s", "\n", "-", " ", "B", "r", "e", "a", "k", " ",
      "d", "o", "w", "n", " ", "c", "o", "m", "p", "l", "e", "x", " ", "c",
      "o", "n", "c", "e", "p", "t", "s", " ", "i", "n", "t", "o", " ", "d",
      "i", "g", "e", "s", "t", "i", "b", "l", "e", " ", "p", "a", "r", "t",
      "s", "\n", "-", " ", "P", "r", "o", "v", "i", "d", "e", " ", "c", "o",
      "n", "t", "e", "x", "t", " ", "f", "o", "r", " ", "w", "h", "y", " ",
      "s", "o", "m", "e", "t", "h", "i", "n", "g", " ", "w", "o", "r", "k",
      "s", ",", " ", "n", "o", "t", " ", "j", "u", "s", "t", " ", "h", "o",
      "w" >>

\* the text between the base prompt and the rendered documents, and the closing line
ContextHeader ==
    << "\n", "\n", "-", "-", "-", "\n", "A", "V", "A", "I", "L", "A", "B",
      "L", "E", " ", "K", "N", "O", "W", "L", "E", "D", "G", "E", " ", "B",
      "A", "S", "E", " ", "C", "O", "N", "T", "E", "X", "T", ":", "\n", "T",
      "h", "e", " ", "f", "o", "l", "l", "o", "w", "i", "n", "g", " ", "e",
      "x", "c", "e", "r", "p", "t", "s", " ", "f", "r", "o", "m", " ", "t",
      "e", "a", "m", " ", "d", "o", "c", "u", "m", "e", "n", "t", "a", "t",
      "i", "o", "n", " ", "m", "a", "y", " ", "b", "e", " ", "r", "e", "l",
      "e", "v", "a", "n", "t", " ", "t", "o", " ", "t", "h", "e", " ", "u",
      "s", "e", "r", "'", "s", " ", "q", "u", "e", "s", "t", "i", "o", "n",
      ".", "\n", "R", "e", "f", "e", "r", "e", "n", "c", "e", " ", "t", "h",
      "e", "s", "e", " ", "s", "o", "u", "r", "c", "e", "s", " ", "w", "h",
      "e", "n", " ", "a", "p", "p", "l", "i", "c", "a", "b", "l", "e", " ",
      "a", "n", "d", " ", "c", "i", "t", "e", " ", "t", "h", "e", "m", " ",
      "i", "n", " ", "y", "o", "u", "r", " ", "r", "e", "s", "p", "o", "n",
      "s", "e", ".", "\n", "\n" >>

ContextFooter == <<"\n", "-", "-", "-">>

Digits == <<"0", "1", "2", "3", "4", "5", "6", "7", "8", "9">>

\* the decimal digits of a number n >= 0, as a template literal renders it
RECURSIVE NumberString(_)
NumberString(n) ==
    IF n < 10 THEN <<Digits[n + 1]>> ELSE NumberString(n \div 10) \o <<Digits[(n % 10) + 1]>>

\* `[Source ${index + 1}: ${doc.metadata.documentName}]\n${doc.content}`, index 0-based
SourceBlock(doc, index) ==
    <<"[", "S", "o", "u", "r", "c", "e", " ">> \o NumberString(index + 1) \o <<":", " ">>
        \o doc.metadata.documentName \o <<"]", "\n">> \o doc.content

\* Array.prototype.join('\n\n') of the source blocks
RECURSIVE JoinSourceBlocks(_, _)
JoinSourceBlocks(docs, index) ==
    IF index >= Len(docs) THEN <<>>
    ELSE (IF index = 0 THEN <<>> ELSE <<"\n", "\n">>)
            \o SourceBlock(docs[index + 1], index)
            \o JoinSourceBlocks(docs, index + 1)

\* (faulty variant: the base prompt is returned whatever the documents are)
buildSystemPrompt_BaseOnly(basePrompt, docs) == basePrompt

buildSystemPrompt(basePrompt, docs) ==
    IF Len(docs) = 0 THEN basePrompt
    ELSE basePrompt \o ContextHeader \o JoinSourceBlocks(docs, 0) \o ContextFooter

\* (faulty variant: an empty string counts as given)
Truthy_Given(optional) == optional.given

\* Boolean(value) of an optional string: undefined and '' are falsy
Truthy(optional) == optional.given /\ optional.value # <<>>

\* sessionProvider holds the session getSession resolves with (NotGiven: null);
\* documentProvider is NotGiven or holds the chunks searchRelevantChunks resolves with.
\* sessionCalls and documentCalls list the calls made to the two providers.
assembleContext(sessionId, query, sessionProvider, documentProvider, options) ==
    LET maxDocumentChunks == IF options.maxDocumentChunks.given
                             THEN options.maxDocumentChunks.value
                             ELSE DefaultMaxDocumentChunks
        customSystemPrompt == options.customSystemPrompt
        conversationHistory == IF Truthy(sessionId) /\ sessionProvider.given
                               THEN sessionProvider.value.messages
                               ELSE <<>>
        relevantDocuments == IF documentProvider.given THEN documentProvider.value ELSE <<>>
        systemPrompt == buildSystemPrompt(IF Truthy(customSystemPrompt)
                                          THEN customSystemPrompt.value
                                          ELSE DEFAULT_SYSTEM_PROMPT,
                                          relevantDocuments)
    IN  [conversationHistory |-> conversationHistory,
         relevantDocuments |-> relevantDocuments,
         systemPrompt |-> systemPrompt,
         sessionCalls |-> IF Truthy(sessionId) THEN <<sessionId.value>> ELSE <<>>,
         documentCalls |-> IF documentProvider.given
                           THEN << [query |-> query, limit |-> maxDocumentChunks] >>
                           ELSE <<>>]

\* inputs of assembleContext
SessionIds == {NotGiven, Given(<<>>), Given(<<"s", "1">>)}

ChatMessages ==
    { [role |-> "user", content |-> <<"h", "i">>],
      [role |-> "assistant", content |-> <<"O", "K">>] }

SessionProviders ==
    {NotGiven} \cup
    {Given([id |-> <<"s", "1">>, messages |-> messages]) :
        messages \in UNION {[1..n -> ChatMessages] : n \in 0..MaxMessages}}

ProvidedChunks ==
    { [id |-> <<1, 1>>, documentId |-> "A", content |-> AlphaSetup, embedding |-> <<1, 0>>,
       metadata |-> [documentName |-> AlphaGuide, chunkIndex |-> 0]],
      [id |-> <<2, 1>>, documentId |-> "B", content |-> BetaConfig, embedding |-> <<0, 1>>,
       metadata |-> [documentName |-> BetaGuide, chunkIndex |-> 0]] }

DocumentProviders ==
    {NotGiven} \cup
    {Given(chunks) : chunks \in UNION {[1..n -> ProvidedChunks] : n \in 0..MaxDocuments}}

CustomPrompt == <<"B", "e", " ", "b", "r", "i", "e", "f", ".">>

AssembleOptions ==
    [maxDocumentChunks : {NotGiven} \cup {Given(n) : n \in 0..MaxDocuments},
     customSystemPrompt : {NotGiven, Given(<<>>), Given(CustomPrompt)}]

AssembleContext(sessionId, query, sessionProvider, documentProvider, options) ==
    /\ found = NoFound
    /\ LET context == assembleContext(sessionId, query, sessionProvider, documentProvider,
                                      options)
       IN  /\ found' = [op |-> "assembleContext", sessionId |-> sessionId, query |-> query,
                        sessionProvider |-> sessionProvider,
                        documentProvider |-> documentProvider, options |-> options,
                        context |-> context]
           /\ ret' = [op |-> "assembleContext", ok |-> TRUE, call |-> 0,
                      value |-> Len(context.relevantDocuments)]
    /\ UNCHANGED <<vectorStore, calls, lastPass, documents, deleted, sideVars>>

NextContext ==
    /\ found = NoFound
    /\ \E sessionId \in SessionIds, query \in {QueryGamma, QueryAlpha},
          sessionProvider \in SessionProviders, documentProvider \in DocumentProviders,
          options \in AssembleOptions :
           AssembleContext(sessionId, query, sessionProvider, documentProvider, options)

SpecContext == InitCommon /\ [][NextContext]_vars

----------------------------------------------------------------------------
(* SessionManager: one JSON file per session.  A Date is kept as its time   *)
(* value; toISOString and new Date(iso) go to the stored form and back.    *)

TitleLength == 50

DefaultTitle ==
    <<"N", "e", "w", " ", "C", "o", "n", "v", "e", "r", "s", "a", "t", "i", "o", "n">>

Ellipsis == <<".", ".", ".">>

toISOString(time) == <<"iso", time>>

DateOf(iso) == iso[2]

serializeMessage(message) ==
    [id |-> message.id, role |-> message.role, content |-> message.content,
     timestamp |-> toISOString(message.timestamp)]

deserializeMessage(stored) ==
    [id |-> stored.id, role |-> stored.role, content |-> stored.content,
     timestamp |-> DateOf(stored.timestamp)]

\* saveSession: the file is replaced as a whole (write to .tmp, then rename)
saveSession(ss, session) ==
    [ss EXCEPT ![session.id] =
        [exists |-> TRUE, title |-> session.title,
         messages |-> [i \in 1..Len(session.messages) |->
                          serializeMessage(session.messages[i])]]]

\* getSession: NotGiven stands for null
getSession(ss, id) ==
    IF id \in SessionFiles /\ ss[id].exists
    THEN Given([id |-> id, title |-> ss[id].title,
                messages |-> [i \in 1..Len(ss[id].messages) |->
                                 deserializeMessage(ss[id].messages[i])]])
    ELSE NotGiven

HasFreshSession(ss) == \E i \in 1..NumSessions : ~ss[SessionName(i)].exists

\* the uuid of the next createSession
FreshSession(ss) ==
    SessionName(CHOOSE i \in 1..NumSessions :
                   /\ ~ss[SessionName(i)].exists
                   /\ \A j \in 1..(i - 1) : ss[SessionName(j)].exists)

createSession(ss) ==
    saveSession(ss, [id |-> FreshSession(ss), title |-> DefaultTitle, messages |-> <<>>])

generateTitleFromMessage(content) ==
    LET trimmed == Trim(content)
        truncated == SubSeq(trimmed, 1, TitleLength)
        lastSpace == LastIndexOf(truncated, <<" ">>)
    IN  IF Len(trimmed) <= TitleLength THEN trimmed
        ELSE IF 2 * lastSpace > TitleLength
        THEN SubSeq(truncated, 1, lastSpace) \o Ellipsis
        ELSE truncated \o Ellipsis

\* addMessage after its getSession: push, title, the session as it is saved
\* (faulty variant: the message replaces the ones before it)
WithMessage_Replacing(session, message) ==
    [session EXCEPT !.messages = <<message>>]

WithMessage(session, message) ==
    LET messages == Append(session.messages, message)
        userMessages == SelectSeq(messages, LAMBDA m : m.role = "user")
    IN  [id |-> session.id,
         title |-> IF /\ session.title = DefaultTitle
                      /\ message.role = "user"
                      /\ Len(userMessages) = 1
                   THEN generateTitleFromMessage(message.content)
                   ELSE session.title,
         messages |-> messages]

\* addMessage from its call to its return, nothing running in between:
\* [ok, sessions]; ok is FALSE when it throws 'Session not found'
addMessage(ss, sessionId, message) ==
    LET session == getSession(ss, sessionId)
    IN  IF ~session.given THEN [ok |-> FALSE, sessions |-> ss]
        ELSE [ok |-> TRUE, sessions |-> saveSession(ss, WithMessage(session.value, message))]

----------------------------------------------------------------------------
(* POST /api/chat and POST /api/sessions.  Up to the call of generateResponse *)
(* the chat handler awaits only SessionManager methods, which do their file *)
(* work synchronously and resolve without waiting for the event loop, so no *)
(* other handler runs in between; the same holds after generateResponse has *)
(* resolved.  The handler is split at generateResponse only.                *)

\* (faulty variant: only the empty string is rejected)
validateQuery_EmptyOnly(query) ==
    IF ~query.given THEN [valid |-> FALSE]
    ELSE IF Len(query.value) = 0 THEN [valid |-> FALSE]
    ELSE [valid |-> TRUE]

\* query is NotGiven for null or undefined
validateQuery(query) ==
    IF ~query.given THEN [valid |-> FALSE]
    ELSE IF Len(Trim(query.value)) = 0 THEN [valid |-> FALSE]
    ELSE [valid |-> TRUE]

\* the message of a request body
ChatBodies ==
    {NotGiven, Given(<<>>), Given(<<" ", "\t">>), Given(<<"\n">>),
     Given(<<"h", "i">>), Given(<<" ", "o", "k", " ">>)}

\* the sessionId of a request body: absent, '', an id without a file, the id of a file
ChatSessionIds(ss) ==
    {NotGiven, Given(<<>>), Given(UnknownSession)}
        \cup {Given(id) : id \in {x \in SessionFiles : ss[x].exists}}

\* requests are numbered in the order they arrive
NextRequest(r) ==
    /\ requests[r].pc = "idle"
    /\ \A r2 \in RequestIds : r2 < r => requests[r2].pc # "idle"

PostChat(r, sessionId, message) ==
    /\ NextRequest(r)
    /\ IF ~validateQuery(message).valid
       THEN /\ requests' = [requests EXCEPT ![r] =
                              [NoRequest EXCEPT !.pc = "responded", !.message = message,
                                                !.status = 400]]
            /\ UNCHANGED sessions
       ELSE LET sessionFound == Truthy(sessionId) /\ getSession(sessions, sessionId.value).given
                opened == IF sessionFound THEN sessions ELSE createSession(sessions)
                currentSessionId == IF sessionFound THEN sessionId.value
                                    ELSE FreshSession(sessions)
                userMessage == [id |-> <<r, "user">>, role |-> "user",
                                content |-> message.value, timestamp |-> r]
                added == addMessage(opened, currentSessionId, userMessage)
            IN  /\ sessionFound \/ HasFreshSession(sessions)
                /\ sessions' = added.sessions
                /\ requests' = [requests EXCEPT ![r] =
                                  [NoRequest EXCEPT !.pc = "generating",
                                                    !.sessionId = currentSessionId,
                                                    !.message = message,
                                                    !.created = ~sessionFound,
                                                    !.persisted = 1,
                                                    !.generated = 1]]
    /\ UNCHANGED <<coreVars, fetches, scan>>

\* generateResponse resolved: the assistant message is saved, 200
ChatGenerated(r) ==
    /\ requests[r].pc = "generating"
    /\ LET assistantMessage == [id |-> <<r, "assistant">>, role |-> "assistant",
                                content |-> Completion, timestamp |-> r]
           added == addMessage(sessions, requests[r].sessionId, assistantMessage)
       IN  /\ sessions' = added.sessions
           /\ requests' = [requests EXCEPT
                             ![r].pc = "responded",
                             ![r].status = IF added.ok THEN 200 ELSE 500,
                             ![r].persisted = IF added.ok THEN @ + 1 ELSE @]
    /\ UNCHANGED <<coreVars, fetches, scan>>

\* generateResponse rejected: next(error), 500
ChatGenerationFails(r) ==
    /\ requests[r].pc = "generating"
    /\ requests' = [requests EXCEPT ![r].pc = "responded", ![r].status = 500]
    /\ UNCHANGED <<coreVars, sessions, fetches, scan>>

PostSessions ==
    /\ HasFreshSession(sessions)
    /\ sessions' = createSession(sessions)
    /\ UNCHANGED <<coreVars, requests, fetches, scan>>

NextChat ==
    \/ \E r \in RequestIds, message \in ChatBodies :
          \E sessionId \in ChatSessionIds(sessions) : PostChat(r, sessionId, message)
    \/ \E r \in RequestIds : ChatGenerated(r)
    \/ \E r \in RequestIds : ChatGenerationFails(r)
    \/ PostSessions

SpecChat == InitCommon /\ [][NextChat]_vars

----------------------------------------------------------------------------
(* RAGEngine.searchRelevantChunks called while documents are being indexed. *)
(* The call awaits the query's embedding and then searches, filters and    *)
(* returns without another await: it reads the index at one instant.       *)

\* a search may ask for more chunks than the index can hold
MaxSearchLimit == NumCalls * MaxChunks + 1

SearchWhileIndexing(limit) ==
    /\ LET chunks == searchRelevantChunks(vectorStore, QueryNoTopic, <<1, 0>>, limit)
       IN  /\ found' = [op |-> "searchRelevantChunks", query |-> QueryNoTopic,
                        queryEmbedding |-> <<1, 0>>, limit |-> limit, results |-> chunks]
           /\ ret' = [op |-> "searchRelevantChunks", ok |-> TRUE, call |-> 0,
                      value |-> Len(chunks)]
    /\ UNCHANGED <<vectorStore, calls, lastPass, documents, deleted, sideVars>>

NextIngestSearch ==
    \/ \E c \in CallIds, d \in DocIds : IndexDocument(c, d)
    \/ \E c \in CallIds, n \in 0..MaxChunks : ParseDone(c, n)
    \/ \E c \in CallIds : EmbeddingDone(c)
    \/ \E c \in CallIds : IndexDocumentFails(c)
    \/ \E c \in CallIds : IndexDocumentReturns(c)
    \/ \E d \in DocIds : RemoveDocument(d)
    \/ \E limit \in 0..MaxSearchLimit : SearchWhileIndexing(limit)

SpecIngestSearch == InitCommon /\ [][NextIngestSearch]_vars

----------------------------------------------------------------------------
(* The server when every awaited call of a pass is answered: parseDocument *)
(* and each generateEmbedding resolve or reject, and a continuation whose  *)
(* promise has settled runs.  Nothing is assumed about requests: no upload *)
(* or DELETE has to arrive.                                                *)

PassStep(c) ==
    \/ \E n \in 0..MaxChunks : ParseDone(c, n)
    \/ EmbeddingDone(c)
    \/ IndexDocumentAsyncIndexed(c)
    \/ IndexDocumentAsyncError(c)

SpecServerFair == SpecServer /\ \A c \in CallIds : WF_vars(PassStep(c))

----------------------------------------------------------------------------
(* OllamaClient.generateEmbedding / generateCompletion.  fetch resolves    *)
(* when the response's status line and headers have arrived; the body is   *)
(* read afterwards by response.json().  The provider may answer, fail or   *)
(* stay silent at each of the two.                                         *)

\* an error value: its class, the code of an OllamaError, and whether the message
\* of a TypeError includes 'fetch'
OllamaErrorOf(code) == [class |-> "OllamaError", code |-> code, fetch |-> FALSE]

TypeErrorOf(fetch) == [class |-> "TypeError", code |-> "none", fetch |-> fetch]

AbortError == [class |-> "AbortError", code |-> "none", fetch |-> FALSE]

SyntaxError == [class |-> "SyntaxError", code |-> "none", fetch |-> FALSE]

wrapError(error) ==
    IF error.class = "OllamaError" THEN error
    ELSE IF error.class = "TypeError" /\ error.fetch THEN OllamaErrorOf("CONNECTION_REFUSED")
    ELSE OllamaErrorOf("UNKNOWN")

\* the catch of fetchWithTimeout
FetchCaught(error) ==
    IF error.class = "AbortError" THEN OllamaErrorOf("TIMEOUT") ELSE error

ClientCalls == {"generateEmbedding", "generateCompletion"}

Pending(f) == fetches[f].pc \in {"fetching", "reading", "errorBody"}

\* the call up to `await fetch(...)`: the timer is set
CallClient(f, kind) ==
    /\ fetches[f].pc = "idle"
    /\ \A f2 \in FetchIds : f2 < f => fetches[f2].pc # "idle"
    /\ fetches' = [fetches EXCEPT ![f] =
                      [NoFetch EXCEPT !.pc = "fetching", !.kind = kind, !.armed = TRUE]]
    /\ UNCHANGED <<coreVars, sessions, requests, scan>>

\* fetch resolves: finally clears the timer; response.json() is awaited, by the
\* caller when response.ok, by handleErrorResponse otherwise
HeadersArrive(f, ok) ==
    /\ fetches[f].pc = "fetching"
    /\ fetches' = [fetches EXCEPT ![f].pc = IF ok THEN "reading" ELSE "errorBody",
                                  ![f].armed = FALSE]
    /\ UNCHANGED <<coreVars, sessions, requests, scan>>

\* fetch rejects for a reason of its own (no connection, ...)
FetchFails(f, error) ==
    /\ fetches[f].pc = "fetching"
    /\ fetches' = [fetches EXCEPT ![f].pc = "rejected", ![f].armed = FALSE,
                                  ![f].error = wrapError(FetchCaught(error))]
    /\ UNCHANGED <<coreVars, sessions, requests, scan>>

\* timeoutMs have passed since the call was made: a pending timer aborts the fetch
TimeoutElapses(f) ==
    /\ Pending(f)
    /\ ~fetches[f].elapsed
    /\ fetches' = IF fetches[f].armed
                  THEN [fetches EXCEPT ![f].elapsed = TRUE, ![f].pc = "rejected",
                                       ![f].armed = FALSE,
                                       ![f].error = wrapError(FetchCaught(AbortError))]
                  ELSE [fetches EXCEPT ![f].elapsed = TRUE]
    /\ UNCHANGED <<coreVars, sessions, requests, scan>>

\* response.json() resolves: the embedding or the completion is returned
BodyArrives(f) ==
    /\ fetches[f].pc = "reading"
    /\ fetches' = [fetches EXCEPT ![f].pc = "resolved"]
    /\ UNCHANGED <<coreVars, sessions, requests, scan>>

\* response.json() rejects (the body breaks off, or is not JSON)
BodyFails(f, error) ==
    /\ fetches[f].pc = "reading"
    /\ fetches' = [fetches EXCEPT ![f].pc = "rejected", ![f].error = wrapError(error)]
    /\ UNCHANGED <<coreVars, sessions, requests, scan>>

\* handleErrorResponse has read the error body, or failed to: it throws
ErrorBodySettles(f, error) ==
    /\ fetches[f].pc = "errorBody"
    /\ fetches' = [fetches EXCEPT ![f].pc = "rejected", ![f].error = wrapError(error)]
    /\ UNCHANGED <<coreVars, sessions, requests, scan>>

NextClient ==
    \/ \E f \in FetchIds, kind \in ClientCalls : CallClient(f, kind)
    \/ \E f \in FetchIds, ok \in BOOLEAN : HeadersArrive(f, ok)
    \/ \E f \in FetchIds, error \in {TypeErrorOf(TRUE), TypeErrorOf(FALSE)} :
          FetchFails(f, error)
    \/ \E f \in FetchIds : TimeoutElapses(f)
    \/ \E f \in FetchIds : BodyArrives(f)
    \/ \E f \in FetchIds, error \in {SyntaxError, TypeErrorOf(FALSE)} : BodyFails(f, error)
    \/ \E f \in FetchIds,
          error \in {OllamaErrorOf("MODEL_NOT_FOUND"), OllamaErrorOf("API_ERROR"),
                     TypeErrorOf(FALSE)} : ErrorBodySettles(f, error)

SpecClient == InitCommon /\ [][NextClient]_vars

----------------------------------------------------------------------------
(* SessionManager used directly: createSession and addMessage.  addMessage *)
(* reads the session file when it is called (getSession does its file work *)
(* before its promise is returned) and saves after `await getSession`, one *)
(* turn of the microtask queue later: calls made in the meantime read the  *)
(* file as it was.  Continuations run in the order of the calls.           *)

MessageContents == {<<"a">>, <<"b">>}

MessageRoles == {"user", "assistant"}

CreateSession == PostSessions

\* addMessage up to `await this.getSession(sessionId)`
AddMessageCalled(r, sessionId, role, content) ==
    /\ NextRequest(r)
    /\ LET session == getSession(sessions, sessionId)
           message == [id |-> <<r, "message">>, role |-> role, content |-> content,
                       timestamp |-> r]
           between == {r2 \in RequestIds :
                          requests[r2].pc = "read" /\ requests[r2].sessionId = sessionId}
       IN  requests' =
              [r2 \in RequestIds |->
                  IF r2 = r
                  THEN [NoRequest EXCEPT
                           !.pc = IF session.given THEN "read" ELSE "failed",
                           !.sessionId = sessionId,
                           !.message = Given(message),
                           !.session = IF session.given THEN session.value ELSE NoSession,
                           !.overlap = session.given /\ between # {}]
                  ELSE IF session.given /\ r2 \in between
                  THEN [requests[r2] EXCEPT !.overlap = TRUE]
                  ELSE requests[r2]]
    /\ UNCHANGED <<coreVars, sessions, fetches, scan>>

\* addMessage after the await: push, title, saveSession
AddMessageSaved(r) ==
    /\ requests[r].pc = "read"
    /\ \A r2 \in RequestIds : r2 < r => requests[r2].pc # "read"
    /\ sessions' = saveSession(sessions,
                               WithMessage(requests[r].session, requests[r].message.value))
    /\ requests' = [requests EXCEPT ![r].pc = "done", ![r].persisted = 1]
    /\ UNCHANGED <<coreVars, fetches, scan>>

NextSessions ==
    \/ CreateSession
    \/ \E r \in RequestIds, sessionId \in SessionFiles \cup {UnknownSession},
          role \in MessageRoles, content \in MessageContents :
             AddMessageCalled(r, sessionId, role, content)
    \/ \E r \in RequestIds : AddMessageSaved(r)

SpecSessions == InitCommon /\ [][NextSessions]_vars

----------------------------------------------------------------------------
(* splitIntoChunks, one loop iteration at a time *)

MaxScanSize == 3      \* largest chunkSize of a scanned config
MaxScanOverlap == 4   \* largest chunkOverlap of a scanned config

ScanConfigs ==
    [chunkSize : 1..MaxScanSize, chunkOverlap : 0..MaxScanOverlap, minChunkSize : 0..1]

\* a text whose windows all snap to a paragraph break one character short of the
\* window, with a config under which the position then falls behind the schedule
StallText ==
    <<"\n">> \o Flatten([i \in 1..9 |-> <<"a", "a", "a", "\n", "\n">>])

StallConfig == [chunkSize |-> 7, chunkOverlap |-> 1, minChunkSize |-> 0]

ScanInputs ==
    {[text |-> text, config |-> config] : text \in Texts, config \in ScanConfigs}
        \cup {[text |-> StallText, config |-> StallConfig]}

\* splitIntoChunks up to its loop; iterations counts the loop's iterations
SplitCalled(text, config) ==
    /\ scan.pc = "idle"
    /\ scan' = IF Len(Trim(text)) = 0 \/ Len(text) <= config.chunkSize
               THEN [NoScan EXCEPT !.pc = "done", !.text = text, !.config = config,
                                   !.chunks = splitIntoChunks(text, config)]
               ELSE [NoScan EXCEPT !.pc = "loop", !.text = text, !.config = config]
    /\ UNCHANGED <<coreVars, sessions, requests, fetches>>

LoopIteration ==
    /\ scan.pc = "loop"
    /\ scan.position < Len(scan.text)
    /\ LET after == SplitStep(scan.text, scan.config, scan.position, scan.chunks)
       IN  scan' = [scan EXCEPT !.position = after.position, !.chunks = after.chunks,
                                !.end = after.end, !.corrected = after.corrected,
                                !.iterations = @ + 1]
    /\ UNCHANGED <<coreVars, sessions, requests, fetches>>

LoopExit ==
    /\ scan.pc = "loop"
    /\ scan.position >= Len(scan.text)
    /\ scan' = [scan EXCEPT !.pc = "done"]
    /\ UNCHANGED <<coreVars, sessions, requests, fetches>>

NextScan ==
    \/ /\ scan.pc = "idle"
       /\ \E input \in ScanInputs : SplitCalled(input.text, input.config)
    \/ LoopIteration
    \/ LoopExit

SpecScan == InitCommon /\ [][NextScan]_vars

----------------------------------------------------------------------------
(* Claims about ingestion *)

(* C1: when indexDocument calls for one document id do not overlap, then   *)
(* right after a call returns, the number of entries under that id equals  *)
(* the chunk count it returned, whatever was indexed under the id before.  *)
C1_ReindexCount ==
    (ret.op = "indexDocument" /\ ret.ok /\ ~calls[ret.call].overlap)
        => Len(StoreGetByDocumentId(vectorStore, calls[ret.call].doc)) = ret.value

\* a second pass over a document that an earlier pass had filled differently
C1_Witness ==
    /\ ret.op = "indexDocument" /\ ret.ok /\ ~calls[ret.call].overlap
    /\ ret.value >= 1
    /\ \E c \in CallIds :
          /\ c # ret.call /\ calls[c].pc = "done" /\ calls[c].doc = calls[ret.call].doc
          /\ calls[c].n >= 1 /\ calls[c].n # ret.value
    /\ Len(StoreGetByDocumentId(vectorStore, calls[ret.call].doc)) = ret.value

(* C2: in every reachable state, overlapping passes included, the entries  *)
(* under one document id all come from a single ingestion pass.            *)
C2_SinglePassPerDocument ==
    \A d \in DocIds :
        \A e1, e2 \in Range(StoreGetByDocumentId(vectorStore, d)) : e1.id[1] = e2.id[1]

(* C3: once DELETE /api/documents/:id has completed for a document, the    *)
(* index holds no entry for that document id in any later state.           *)
C3_DeletedDocumentStaysOut ==
    \A d \in deleted :
        /\ StoreGetByDocumentId(vectorStore, d) = <<>>
        /\ \A e \in Range(vectorStore.entries) : e.documentId # d

(* C4: for different documents, once every call has completed, each        *)
(* document holds exactly the chunks of its last stored pass (none if it   *)
(* was purged afterwards), provided that pass did not overlap another pass *)
(* on the same document; no entry is ever listed under, or owned by, a     *)
(* document other than the one its pass ingested.                          *)
C4_DocumentsIsolated ==
    /\ \A e \in Range(vectorStore.entries) :
          /\ calls[e.id[1]].doc = e.documentId
          /\ \A p \in Range(vectorStore.documentIndex) :
                e.id \in Range(p.ids) <=> p.documentId = e.documentId
    /\ (\A c \in CallIds : ~InFlight(c)) =>
          \A d \in DocIds :
             /\ lastPass[d] = 0 => StoreGetByDocumentId(vectorStore, d) = <<>>
             /\ (lastPass[d] # 0 /\ ~calls[lastPass[d]].overlap) =>
                   StoreGetByDocumentId(vectorStore, d) = PassEntries(lastPass[d])

\* both documents filled by passes that ran across each other
C4_Witness ==
    /\ \A c \in CallIds : ~InFlight(c)
    /\ \A d \in DocIds :
          /\ lastPass[d] # 0
          /\ calls[lastPass[d]].crossed
          /\ calls[lastPass[d]].n >= 1
          /\ StoreGetByDocumentId(vectorStore, d) = PassEntries(lastPass[d])

----------------------------------------------------------------------------
(* Claims about retrieval *)

Searched == found.op = "searchRelevantChunks"

ScoreOf(e) == cosineSimilarity(found.queryEmbedding, e.embedding)

PassesThreshold(e) == ScoreGE(ScoreOf(e), SimilarityThreshold)

EntriesOf(d) == {e \in Range(vectorStore.entries) : e.documentId = d}

\* the token occurs in the name or the content of some indexed chunk
TokenOccurs(token) ==
    \E e \in Range(vectorStore.entries) :
        \/ Includes(toLowerCase(e.documentName), token)
        \/ Includes(toLowerCase(e.content), token)

FoundTopics == Range(QueryTopics[found.query])

(* C5 as stated: when the query's topic tokens include one that occurs in   *)
(* no indexed document's name or content, the search returns nothing.      *)
C5_AnyUnknownTokenEmpties ==
    (Searched /\ \E token \in FoundTopics : ~TokenOccurs(token))
        => found.results = <<>>

(* C5: when the query has topic tokens and none of them occurs in any      *)
(* indexed document's name or content, the search returns nothing, even    *)
(* when entries of unrelated documents score at or above the threshold.    *)
C5_AllUnknownTokensEmpty ==
    (Searched /\ FoundTopics # {} /\ \A token \in FoundTopics : ~TokenOccurs(token))
        => found.results = <<>>

\* "What is gamma?" over an index whose chunks pass the threshold within the limit
C5_Witness ==
    /\ Searched
    /\ found.query = QueryGamma
    /\ \A token \in FoundTopics : ~TokenOccurs(token)
    /\ ThresholdFiltered(vectorStore, found.queryEmbedding, found.limit) # <<>>
    /\ found.results = <<>>

\* alpha-guide and beta-guide are indexed and a beta-guide chunk passes the threshold
BetaScenario ==
    /\ Searched
    /\ found.query = QueryConfigureBeta
    /\ EntriesOf("A") # {}
    /\ \E e \in EntriesOf("B") : PassesThreshold(e)

OnlyBetaChunks == \A i \in 1..Len(found.results) : found.results[i].documentId = "B"

(* C6 as stated: "how do I configure beta" returns a non-empty list made   *)
(* only of beta-guide chunks, whatever the number and the scores of the    *)
(* alpha-guide chunks.                                                     *)
C6_BetaAlwaysReturned ==
    (BetaScenario /\ found.limit >= 1) => (found.results # <<>> /\ OnlyBetaChunks)

(* C6: "how do I configure beta" returns only beta-guide chunks; the list  *)
(* is non-empty when some beta-guide chunk at or above the threshold has   *)
(* fewer than limit other entries scoring at least as high, and empty when *)
(* limit or more alpha-guide chunks outscore every beta-guide chunk.       *)
C6_OnlyBetaWithinLimit ==
    BetaScenario =>
        /\ OnlyBetaChunks
        /\ (\E e \in EntriesOf("B") :
                /\ PassesThreshold(e)
                /\ Cardinality({f \in Range(vectorStore.entries) \ {e} :
                                    ScoreGE(ScoreOf(f), ScoreOf(e))}) < found.limit)
              => found.results # <<>>
        /\ Cardinality({f \in EntriesOf("A") :
                            \A e \in EntriesOf("B") : ScoreGT(ScoreOf(f), ScoreOf(e))})
                >= found.limit
              => found.results = <<>>

\* every alpha-guide chunk outscores every beta-guide chunk, beta-guide is returned
C6_Witness ==
    /\ BetaScenario
    /\ \A f \in EntriesOf("A") : \A e \in EntriesOf("B") : ScoreGT(ScoreOf(f), ScoreOf(e))
    /\ \A f \in EntriesOf("A") : PassesThreshold(f)
    /\ found.results # <<>>
    /\ OnlyBetaChunks

----------------------------------------------------------------------------
(* Claims about the store *)

(* C8: add and search reject a vector whose length differs from the stored *)
(* ones; a mismatched vector is never accepted into the index.             *)
C8_NoMismatchedVectorStored ==
    \A i, j \in 1..Len(vectorStore.entries) :
        Len(vectorStore.entries[i].embedding) = Len(vectorStore.entries[j].embedding)

(* C9: the primary map and the document-to-ids map agree after any         *)
(* sequence of add, addMany, delete, deleteByDocumentId and clear.         *)
C9_MapsAgree ==
    /\ \A d \in DocIds :
          Range(StoreGetByDocumentId(vectorStore, d)) =
             {e \in Range(vectorStore.entries) : e.documentId = d}
    /\ \A e \in Range(vectorStore.entries) :
          Cardinality({p \in Range(vectorStore.documentIndex) : e.id \in Range(p.ids)}) = 1
    /\ \A p \in Range(vectorStore.documentIndex) :
          /\ p.ids # <<>>
          /\ \A id \in Range(p.ids) : HasEntry(vectorStore, id)

(* C10: deleteByDocumentId(d) removes exactly the stored entries whose     *)
(* documentId is d, returns how many it removed, and returns 0 leaving the *)
(* index unchanged when d has no entries.                                  *)
C10_DeleteByDocumentIdExact ==
    [][\A d \in DocIds :
         DeleteByDocumentId(d) =>
            LET own == SelectSeq(vectorStore.entries, LAMBDA e : e.documentId = d)
            IN  /\ vectorStore'.entries =
                      SelectSeq(vectorStore.entries, LAMBDA e : e.documentId # d)
                /\ ret'.value = Len(own)
                /\ (own = <<>> => vectorStore' = vectorStore)]_vars

----------------------------------------------------------------------------
(* Claims about ranking *)

RankedSearch == found.op = "search" /\ found.ok

(* C11: a search that does not raise the dimension-mismatch error returns  *)
(* exactly min(limit, size()) results, each a stored entry with its cosine *)
(* score, in non-increasing score order, no stored entry left out scoring  *)
(* strictly higher than a returned one; search never changes the index.    *)
C11_SearchTopK ==
    /\ [](RankedSearch =>
            LET results == found.results
                ScoreIn(e) == cosineSimilarity(found.queryEmbedding, e.embedding)
            IN  /\ Len(results) = Min(found.limit, StoreSize(vectorStore))
                /\ \A i \in 1..Len(results) :
                      /\ results[i].entry \in Range(vectorStore.entries)
                      /\ results[i].score = ScoreIn(results[i].entry)
                /\ \A i, j \in 1..Len(results) :
                      /\ i < j => ScoreGE(results[i].score, results[j].score)
                      /\ i # j => results[i].entry.id # results[j].entry.id
                /\ \A e \in Range(vectorStore.entries) :
                      (\A i \in 1..Len(results) : results[i].entry # e) =>
                          \A i \in 1..Len(results) : ~ScoreGT(ScoreIn(e), results[i].score))
    /\ [][\A queryEmbedding \in QueryVectors, limit \in 0..MaxLimit :
             RankSearch(queryEmbedding, limit) => vectorStore' = vectorStore]_vars

\* the entry stored first scores lowest and is cut off by the limit
C11_Witness ==
    /\ RankedSearch
    /\ found.limit >= 1
    /\ StoreSize(vectorStore) > found.limit
    /\ Len(found.results) = found.limit
    /\ found.results[1].entry # vectorStore.entries[1]
    /\ \A i \in 1..Len(found.results) :
          ScoreGT(found.results[i].score,
                  cosineSimilarity(found.queryEmbedding, vectorStore.entries[1].embedding))

----------------------------------------------------------------------------
(* Claims about chunking *)

Split == found.op = "splitIntoChunks"

\* the chunks whose content holds the character at offset p of the text
ChunksHolding(p) ==
    {i \in 1..Len(found.chunks) : found.chunks[i].from <= p /\ p < found.chunks[i].to}

(* C12: under the default config a 1200-character document is split into   *)
(* exactly 2 chunks, the second beginning with the roughly 200 characters  *)
(* that end the first.                                                     *)
C12_TwoChunksWithOverlap ==
    (Split /\ found.config = DEFAULT_CHUNKING_CONFIG /\ Len(found.text) = 1200) =>
        /\ Len(found.chunks) = 2
        /\ found.chunks[1].to - found.chunks[2].from \in 150..250

(* C13: when the overlap is smaller than the chunk size, no position of    *)
(* the text is contained in more than two of the returned chunks.          *)
C13_AtMostTwoChunksPerPosition ==
    (Split /\ found.config.chunkOverlap < found.config.chunkSize) =>
        \A p \in 0..(Len(found.text) - 1) : Cardinality(ChunksHolding(p)) <= 2

(* C14: for a text that is not empty or whitespace-only, every             *)
(* non-whitespace character position lies inside at least one returned     *)
(* chunk; in particular the result is not empty.                           *)
C14_ChunksCoverText ==
    (Split /\ Trim(found.text) # <<>>) =>
        /\ found.chunks # <<>>
        /\ \A p \in 0..(Len(found.text) - 1) :
              found.text[p + 1] \notin WhiteSpace => ChunksHolding(p) # {}

(* C15: with minChunkSize >= 1 no chunk is empty, no chunk starts or ends  *)
(* with whitespace, and every chunk is at least minChunkSize long unless   *)
(* it is the sole chunk of a text no longer than the chunk size; a         *)
(* whitespace-only text yields no chunk; any other text no longer than the *)
(* chunk size yields exactly one chunk, with index 0.                      *)
C15_ChunksWellFormed ==
    (Split /\ found.config.minChunkSize >= 1) =>
        LET chunks == found.chunks
            short == Len(found.text) <= found.config.chunkSize
        IN  /\ \A i \in 1..Len(chunks) :
                  /\ chunks[i].content # <<>>
                  /\ Head(chunks[i].content) \notin WhiteSpace
                  /\ chunks[i].content[Len(chunks[i].content)] \notin WhiteSpace
                  /\ chunks[i].chunkIndex = i - 1
                  /\ \/ Len(chunks[i].content) >= found.config.minChunkSize
                     \/ Len(chunks) = 1 /\ short
            /\ (\A i \in 1..Len(found.text) : found.text[i] \in WhiteSpace) => chunks = <<>>
            /\ (short /\ \E i \in 1..Len(found.text) : found.text[i] \notin WhiteSpace) =>
                  /\ Len(chunks) = 1
                  /\ chunks[1].chunkIndex = 0

\* a short text with blanks around it comes back as one trimmed chunk below minChunkSize
C15_Witness ==
    /\ Split
    /\ found.config.minChunkSize >= 2
    /\ Len(found.text) <= found.config.chunkSize
    /\ found.text # <<>>
    /\ Head(found.text) \in WhiteSpace
    /\ Len(found.chunks) = 1
    /\ Len(found.chunks[1].content) < found.config.minChunkSize

----------------------------------------------------------------------------
(* Claims about generated responses *)

Responded == found.op = "generateResponse"

Retrieved == found.response.relevantChunks

(* C16: the confidence is 0.1 exactly when no chunk was retrieved;         *)
(* otherwise it is 0.4 + min(chunkCount/topK, 1) * 0.5, which lies in      *)
(* [0.4, 0.9], grows strictly with every further chunk up to topK and is   *)
(* 0.9 from topK chunks on.                                                *)
C16_Confidence ==
    Responded =>
        LET confidence == found.response.confidence
            topK == found.config.topK
            count == Len(Retrieved)
            Of(chunks) == calculateConfidence(chunks, topK)
            stored == vectorStore.entries
        IN  /\ FractionEQ(confidence, [n |-> 1, d |-> 10]) <=> count = 0
            /\ count > 0 =>
                  /\ (10 * confidence.n - 4 * confidence.d) * topK
                        = 5 * confidence.d * Min(count, topK)
                  /\ ~FractionLT(confidence, [n |-> 4, d |-> 10])
                  /\ ~FractionLT([n |-> 9, d |-> 10], confidence)
            /\ \A m \in 1..(Len(stored) - 1) :
                  IF m < topK
                  THEN FractionLT(Of(SubSeq(stored, 1, m)), Of(SubSeq(stored, 1, m + 1)))
                  ELSE /\ FractionEQ(Of(SubSeq(stored, 1, m)), [n |-> 9, d |-> 10])
                       /\ FractionEQ(Of(SubSeq(stored, 1, m + 1)), [n |-> 9, d |-> 10])

\* two chunks retrieved with topK = 3: the confidence is 0.4 + (2/3) * 0.5
C16_Witness ==
    /\ Responded
    /\ Len(Retrieved) = 2
    /\ found.config.topK = 3
    /\ found.response.confidence = [n |-> 22, d |-> 30]

(* C17: the content is the completion followed by the uncertainty notice   *)
(* exactly when confidence < confidenceThreshold, and the completion       *)
(* itself otherwise; against an empty index, with the default threshold,   *)
(* the confidence is 0.1, there are no sources and the content contains    *)
(* the notice.                                                             *)
C17_UncertaintyNotice ==
    Responded =>
        LET response == found.response
            low == FractionLT(response.confidence, found.config.confidenceThreshold)
        IN  /\ low => response.content = found.rawResponse \o UncertaintyIndicator
            /\ ~low => response.content = found.rawResponse
            /\ (vectorStore.entries = <<>>
                  /\ found.config.confidenceThreshold = DefaultConfidenceThreshold) =>
                  /\ FractionEQ(response.confidence, [n |-> 1, d |-> 10])
                  /\ response.sources = <<>>
                  /\ Includes(response.content, UncertaintyIndicator)

\* chunks were retrieved, yet the confidence is below the threshold: notice added
C17_Witness ==
    /\ Responded
    /\ Retrieved # <<>>
    /\ FractionLT(found.response.confidence, found.config.confidenceThreshold)
    /\ found.response.content = found.rawResponse \o UncertaintyIndicator

(* C18: the sources hold exactly one entry per distinct documentId among   *)
(* the retrieved chunks, in the order of each document's first retrieved   *)
(* chunk; an entry's excerpt is that first chunk's content when it has at  *)
(* most 100 characters, else its first 97 characters followed by "...".    *)
C18_SourcesPerDocument ==
    Responded =>
        LET sources == found.response.sources
            FirstOf(d) == CHOOSE i \in 1..Len(Retrieved) :
                              /\ Retrieved[i].documentId = d
                              /\ \A j \in 1..(i - 1) : Retrieved[j].documentId # d
        IN  /\ {sources[k].documentId : k \in 1..Len(sources)}
                  = {Retrieved[i].documentId : i \in 1..Len(Retrieved)}
            /\ \A k, l \in 1..Len(sources) :
                  /\ k # l => sources[k].documentId # sources[l].documentId
                  /\ k < l => FirstOf(sources[k].documentId) < FirstOf(sources[l].documentId)
            /\ \A k \in 1..Len(sources) :
                  LET first == Retrieved[FirstOf(sources[k].documentId)]
                  IN  /\ sources[k].documentName = first.metadata.documentName
                      /\ Len(sources[k].excerpt) <= 100
                      /\ IF Len(first.content) <= 100
                         THEN sources[k].excerpt = first.content
                         ELSE sources[k].excerpt
                                 = SubSeq(first.content, 1, 97) \o <<".", ".", ".">>

\* three chunks of two documents retrieved; the first one is longer than 100 characters
C18_Witness ==
    /\ Responded
    /\ Len(Retrieved) = 3
    /\ Len(found.response.sources) = 2
    /\ Len(Retrieved[1].content) > 100
    /\ Len(found.response.sources[1].excerpt) = 100
    /\ Retrieved[2].documentId # Retrieved[1].documentId
    /\ Retrieved[3].documentId = Retrieved[1].documentId

----------------------------------------------------------------------------
(* Claims about context assembly *)

Assembled == found.op = "assembleContext"

(* C19: when a customSystemPrompt (a non-empty string) is given, the       *)
(* returned systemPrompt is exactly that string, whether or not a document *)
(* provider is supplied and whatever chunks it returns.                    *)
C19_CustomPromptUnchanged ==
    (Assembled /\ found.options.customSystemPrompt.given
               /\ found.options.customSystemPrompt.value # <<>>) =>
        found.context.systemPrompt = found.options.customSystemPrompt.value

(* C20: conversationHistory is the session's messages in stored order when *)
(* a session id is given and the provider returns the session; it is empty *)
(* when no id is given (the provider is then not called) or the provider   *)
(* returns no session.  relevantDocuments is empty without a document      *)
(* provider; otherwise the provider is called once, with the query and     *)
(* maxDocumentChunks (5 by default), and its chunks are returned.          *)
C20_HistoryAndDocuments ==
    Assembled =>
        LET context == found.context
            named == found.sessionId.given /\ found.sessionId.value # <<>>
            limit == IF found.options.maxDocumentChunks.given
                     THEN found.options.maxDocumentChunks.value ELSE 5
        IN  /\ (named /\ found.sessionProvider.given) =>
                  /\ context.conversationHistory = found.sessionProvider.value.messages
                  /\ context.sessionCalls = <<found.sessionId.value>>
            /\ ~named =>
                  /\ context.conversationHistory = <<>>
                  /\ context.sessionCalls = <<>>
            /\ ~found.sessionProvider.given => context.conversationHistory = <<>>
            /\ ~found.documentProvider.given =>
                  /\ context.relevantDocuments = <<>>
                  /\ context.documentCalls = <<>>
            /\ found.documentProvider.given =>
                  /\ context.documentCalls = << [query |-> found.query, limit |-> limit] >>
                  /\ context.relevantDocuments = found.documentProvider.value

\* a stored session of two different messages, read with the default chunk limit
C20_Witness ==
    /\ Assembled
    /\ found.sessionId = Given(<<"s", "1">>)
    /\ found.sessionProvider.given
    /\ Len(found.context.conversationHistory) = 2
    /\ found.context.conversationHistory[1] # found.context.conversationHistory[2]
    /\ found.documentProvider.given
    /\ ~found.options.maxDocumentChunks.given
    /\ found.context.documentCalls = << [query |-> found.query, limit |-> 5] >>

----------------------------------------------------------------------------
(* Claims about the chat route *)

MaxQueryLen == 2      \* longest query string validateQuery is tried on

QueryStrings == UNION {[1..n -> {" ", "\t", "\n", "a"}] : n \in 0..MaxQueryLen}

OnlyWhiteSpace(s) == \A i \in 1..Len(s) : s[i] \in {" ", "\t", "\n"}

\* the messages request r has in the session files
SavedBy(r) ==
    {m \in UNION {Range(sessions[id].messages) : id \in SessionFiles} : m.id[1] = r}

(* C21: validateQuery rejects a string exactly when it is empty or made of *)
(* white space only, and POST /api/chat with such a message answers 400    *)
(* without calling generateResponse (and so the embedding provider),       *)
(* without creating a session and without saving any message.              *)
C21_WhitespaceRejected ==
    /\ [](/\ \A q \in QueryStrings :
                validateQuery(Given(q)).valid <=> ~OnlyWhiteSpace(q)
          /\ \A r \in RequestIds :
                (/\ requests[r].pc # "idle"
                 /\ requests[r].message.given
                 /\ OnlyWhiteSpace(requests[r].message.value)) =>
                    /\ requests[r].pc = "responded"
                    /\ requests[r].status = 400
                    /\ requests[r].generated = 0
                    /\ ~requests[r].created
                    /\ requests[r].persisted = 0
                    /\ SavedBy(r) = {})
    /\ [][\A r \in RequestIds :
            (requests[r].pc = "idle" /\ requests'[r].status = 400) =>
                sessions' = sessions]_vars

\* a blank message sent to a session that another request is being answered in
C21_Witness ==
    \E r, r2 \in RequestIds :
        /\ requests[r].status = 400
        /\ requests[r].message.given
        /\ Len(requests[r].message.value) > 0
        /\ requests[r2].pc = "generating"
        /\ SavedBy(r2) # {}

----------------------------------------------------------------------------
(* Claims about searches during ingestion *)

\* the ids of the chunks of document d a search returned
ReturnedOf(d) == {chunk.id : chunk \in {x \in Range(found.results) : x.documentId = d}}

PassIds(c) == {PassEntries(c)[i].id : i \in 1..calls[c].n}

(* C22: a searchRelevantChunks call made at any point of an indexDocument  *)
(* pass over a document, and not cut short by its limit, returns for that  *)
(* document either no chunk or exactly the chunks of one ingestion pass,   *)
(* never a non-empty strict subset of a pass; a document none of whose     *)
(* passes has completed contributes nothing.                               *)
C22_SearchSeesWholePasses ==
    (found.op = "searchRelevantChunks" /\ Len(found.results) < found.limit) =>
        \A d \in DocIds :
            /\ \/ ReturnedOf(d) = {}
               \/ \E c \in CallIds :
                     calls[c].pc = "done" /\ calls[c].doc = d /\ ReturnedOf(d) = PassIds(c)
            /\ (\A c \in CallIds : calls[c].doc = d => calls[c].pc # "done") =>
                   ReturnedOf(d) = {}

\* the same, for documents whose passes did not run together with one another
C22_AmongSeparatePasses ==
    (found.op = "searchRelevantChunks" /\ Len(found.results) < found.limit) =>
        \A d \in DocIds :
            (\A c \in CallIds : calls[c].doc = d => ~calls[c].overlap) =>
                /\ \/ ReturnedOf(d) = {}
                   \/ \E c \in CallIds :
                         calls[c].pc = "done" /\ calls[c].doc = d
                            /\ ReturnedOf(d) = PassIds(c)
                /\ (\A c \in CallIds : calls[c].doc = d => calls[c].pc # "done") =>
                       ReturnedOf(d) = {}

----------------------------------------------------------------------------
(* Claims about the status of a stored document *)

\* the pass that ingests document d (an id is uploaded once)
PassOf(d) == CHOOSE c \in CallIds : calls[c].pc # "idle" /\ calls[c].doc = d

(* C23: a document accepted by POST /api/documents is stored as pending;   *)
(* unless it is deleted, and given that every awaited call of its pass     *)
(* resolves or rejects, its status eventually becomes indexed (parsing and *)
(* every embedding succeeded, also with 0 chunks; chunkCount is the number *)
(* of chunks produced) or error (one of them failed); it never stays       *)
(* pending forever and never goes from indexed or error back to pending.   *)
C23_StatusSettles ==
    /\ \A d \in DocIds :
          (documents[d].status = "pending") ~>
              (documents[d].status \in {"indexed", "error", "absent"})
    /\ [](\A d \in DocIds :
             /\ documents[d].status = "pending" =>
                   /\ documents[d].chunkCount = 0
                   /\ InFlight(PassOf(d))
             /\ documents[d].status = "indexed" =>
                   /\ calls[PassOf(d)].pc = "done"
                   /\ documents[d].chunkCount = calls[PassOf(d)].n
             /\ documents[d].status = "error" => calls[PassOf(d)].pc = "failed")
    /\ [][\A d \in DocIds :
             /\ (~Stored(d) /\ Stored(d)') => documents'[d].status = "pending"
             /\ documents[d].status \in {"indexed", "error"} =>
                   documents'[d].status \in {documents[d].status, "absent"}]_vars

\* one document indexed with no chunk at all, the other in error
C23_Witness ==
    \E d1, d2 \in DocIds :
        /\ documents[d1].status = "indexed"
        /\ documents[d1].chunkCount = 0
        /\ calls[PassOf(d1)].n = 0
        /\ documents[d2].status = "error"

----------------------------------------------------------------------------
(* Claims about the provider client *)

(* C24: a generateEmbedding or generateCompletion call does not wait past  *)
(* timeoutMs: once timeoutMs have passed without a complete response the   *)
(* call has failed with an OllamaError of code TIMEOUT; and every failure  *)
(* of a call reaches the caller as an OllamaError.                         *)
C24_CallsEndByTimeout ==
    \A f \in FetchIds :
        /\ fetches[f].elapsed =>
              /\ fetches[f].pc = "rejected"
              /\ fetches[f].error = OllamaErrorOf("TIMEOUT")
        /\ fetches[f].pc = "rejected" => fetches[f].error.class = "OllamaError"

\* the second half alone: every failure is an OllamaError
C24_FailuresAreOllamaErrors ==
    \A f \in FetchIds : fetches[f].pc = "rejected" => fetches[f].error.class = "OllamaError"

----------------------------------------------------------------------------
(* Claims about the session store *)

\* the messages of the addMessage calls on a session that returned, in call order
AddedTo(id) ==
    LET returned == SelectSeq([r \in RequestIds |-> requests[r]],
                              LAMBDA call : call.pc = "done" /\ call.sessionId = id)
    IN  [i \in 1..Len(returned) |-> returned[i].message.value]

CallsOn(id) ==
    {r \in RequestIds : requests[r].pc \in {"read", "done"} /\ requests[r].sessionId = id}

\* an addMessage call fails exactly when its session has no file, and then no file
\* is created or changed
FailsWithoutFile ==
    \A r \in RequestIds :
        (requests[r].pc = "idle" /\ requests'[r].pc # "idle") =>
            /\ requests'[r].pc = "failed" <=> ~getSession(sessions, requests'[r].sessionId).given
            /\ requests'[r].pc = "failed" => sessions' = sessions

(* C25 as stated: after any addMessage calls on a session have returned,   *)
(* getSession returns all their messages, none lost or duplicated, in the  *)
(* order the calls were made; addMessage on an id without a session fails  *)
(* and creates no session file.                                            *)
C25_AllMessagesKept ==
    \A id \in SessionFiles :
        (sessions[id].exists /\ \A r \in CallsOn(id) : requests[r].pc = "done") =>
            getSession(sessions, id).value.messages = AddedTo(id)

(* C25: after addMessage calls on a session, each made after the previous  *)
(* call on that session had returned, getSession returns all their         *)
(* messages, none lost or duplicated, in the order the calls were made;    *)
(* addMessage on an id without a session fails and creates no session file.*)
C25_SequentialMessagesKept ==
    /\ [](\A id \in SessionFiles :
             (sessions[id].exists /\ \A r \in CallsOn(id) : ~requests[r].overlap) =>
                 getSession(sessions, id).value.messages = AddedTo(id))
    /\ [][FailsWithoutFile]_vars

\* two calls on one session, one after the other, with different messages
C25_Witness ==
    \E id \in SessionFiles :
        /\ sessions[id].exists
        /\ Cardinality(CallsOn(id)) = 2
        /\ \A r \in CallsOn(id) : requests[r].pc = "done" /\ ~requests[r].overlap
        /\ Len(getSession(sessions, id).value.messages) = 2
        /\ AddedTo(id)[1].content # AddedTo(id)[2].content
        /\ getSession(sessions, id).value.messages = AddedTo(id)

----------------------------------------------------------------------------
(* Claims about the chunker's loop *)

(* C26: splitIntoChunks terminates for every text and every config, an     *)
(* overlap at or above the chunk size included: the scan position strictly *)
(* increases on every loop iteration, also when the stall correction       *)
(* resets it to the window's right edge, so the loop makes at most as many *)
(* iterations as the text has characters and then returns what the         *)
(* function returns.                                                       *)
C26_ScanTerminates ==
    /\ [][(scan.pc = "loop" /\ scan'.pc = "loop") =>
             /\ scan'.position > scan.position
             /\ scan'.end > scan.position]_vars
    /\ [](scan.iterations <= Len(scan.text))
    /\ [](scan.pc = "loop" /\ scan.position >= Len(scan.text) => ENABLED LoopExit)
    /\ [](scan.pc = "done" => scan.chunks = splitIntoChunks(scan.text, scan.config))

\* the stall correction has just put the position further than the step had
C26_Witness ==
    /\ scan.pc = "loop"
    /\ scan.corrected
    /\ scan.position = scan.end
    /\ scan.config.chunkOverlap > 0
    /\ scan.position < Len(scan.text)

----------------------------------------------------------------------------
(* Claims about what a search returns *)

StoredChunks ==
    {vectorEntryToChunk([entry |-> vectorStore.entries[i]]) : i \in 1..Len(vectorStore.entries)}

(* C27: for every index state, query and limit >= 0, searchRelevantChunks  *)
(* returns at most limit chunks; each of them is an entry the index holds, *)
(* with a cosine score against the query embedding at or above             *)
(* similarityThreshold; the scores do not increase along the result.       *)
C27_ResultsBoundedStoredSorted ==
    Searched =>
        /\ Len(found.results) <= found.limit
        /\ \A i \in 1..Len(found.results) :
              /\ found.results[i] \in StoredChunks
              /\ PassesThreshold(found.results[i])
        /\ \A i \in 1..(Len(found.results) - 1) :
              ScoreGE(ScoreOf(found.results[i]), ScoreOf(found.results[i + 1]))

\* two chunks of different scores came back, the limit cut a third entry that
\* passes the threshold, and an entry below the threshold is in the index
C27_Witness ==
    /\ Searched
    /\ Len(found.results) = 2
    /\ found.limit = 2
    /\ ScoreGT(ScoreOf(found.results[1]), ScoreOf(found.results[2]))
    /\ \E i \in 1..Len(vectorStore.entries) : ~PassesThreshold(vectorStore.entries[i])
    /\ Cardinality({i \in 1..Len(vectorStore.entries) :
                       PassesThreshold(vectorStore.entries[i])}) > 2

----------------------------------------------------------------------------
(* Claims about the server across restarts *)

(* C28: in every reachable state of the server (uploads, completed or      *)
(* failed ingestions, deletions, and a restart of the process that empties *)
(* the in-memory index while the stored documents persist), a stored       *)
(* document with status indexed has exactly chunkCount entries under its   *)
(* id in the index.                                                        *)
C28_IndexedHasChunkCount ==
    \A d \in DocIds :
        documents[d].status = "indexed"
            => Len(StoreGetByDocumentId(vectorStore, d)) = documents[d].chunkCount

----------------------------------------------------------------------------
(* Claims about failed requests *)

(* C29: when generateResponse fails during POST /api/chat, the request     *)
(* leaves the session store as it was before the request: it has created   *)
(* no session and none of its messages is in a session file.               *)
C29_FailedChatLeavesNoTrace ==
    \A r \in RequestIds :
        (requests[r].pc = "responded" /\ requests[r].status = 500) =>
            /\ ~requests[r].created
            /\ SavedBy(r) = {}

----------------------------------------------------------------------------
(* Claims about failed ingestion passes *)

\* the step taken is one of pass c's own
StepOf(c) == calls'[c].pc # calls[c].pc \/ calls'[c].k # calls[c].k

(* C30: when indexDocument(doc) fails, in parsing or in the embedding of   *)
(* any chunk, the index has zero entries under doc.id as the call rejects  *)
(* (the earlier entries are purged, no part of the new chunks is put in),  *)
(* and no step of the call changes the entries of another document.        *)
C30_FailedPassLeavesNothing ==
    /\ []((ret.op = "indexDocument" /\ ~ret.ok) =>
             StoreGetByDocumentId(vectorStore, calls[ret.call].doc) = <<>>)
    /\ [][\A c \in CallIds :
            (StepOf(c) /\ calls'[c].pc # "done") =>
                \A d \in DocIds \ {calls'[c].doc} :
                    StoreGetByDocumentId(vectorStore', d)
                        = StoreGetByDocumentId(vectorStore, d)]_vars

\* the same, for a failing pass that did not run together with another pass over
\* the same document
C30_AmongSeparatePasses ==
    /\ []((ret.op = "indexDocument" /\ ~ret.ok /\ ~calls[ret.call].overlap) =>
             StoreGetByDocumentId(vectorStore, calls[ret.call].doc) = <<>>)
    /\ [][\A c \in CallIds :
            (StepOf(c) /\ calls'[c].pc # "done") =>
                \A d \in DocIds \ {calls'[c].doc} :
                    StoreGetByDocumentId(vectorStore', d)
                        = StoreGetByDocumentId(vectorStore, d)]_vars

====
